---------------------------- MODULE Spec2Model ----------------------------
(***************************************************************************)
(* A model of three pieces of the TortoiseHg GUI layer:                    *)
(*   - the repo-registry tree items of hgqt/repotreeitem.py (tree          *)
(*     mutation, virtual paths, XML dump/undump),                          *)
(*   - the status widget of hgqt/status.py (refresh worker, WctxModel,     *)
(*     partial hunk selections).                                           *)
(* Strings are sequences of one-character strings, so that quoting,        *)
(* splitting and number formatting are computed as the code computes them. *)
(***************************************************************************)
EXTENDS Integers, Sequences, FiniteSets, TLC

\* ------------------------------------------------------------------------
\* Bounds of the model
\* ------------------------------------------------------------------------

\* number of tree items besides the root item
MaxItems == 3
\* number of named groups in the trees that virtual paths are looked up in
MaxPathItems == 2
\* largest '#n' index probed in a crafted virtual path (and -MaxProbe the least)
MaxProbe == 2

\* ------------------------------------------------------------------------
\* Strings
\* ------------------------------------------------------------------------

HexDigits == <<"0","1","2","3","4","5","6","7","8","9","A","B","C","D","E","F">>
LowerHexDigits == <<"0","1","2","3","4","5","6","7","8","9","a","b","c","d","e","f">>
DecDigits == <<"0","1","2","3","4","5","6","7","8","9">>

\* ord() of the characters _quotenamere matches
Ord(c) == CASE c = "%" -> 37 [] c = "/" -> 47 [] c = "#" -> 35

\* '%02X' % n
FormatX2(n) == << HexDigits[(n \div 16) + 1], HexDigits[(n % 16) + 1] >>

RECURSIVE FormatNat(_)
\* '%d' % n for n >= 0
FormatNat(n) ==
    IF n < 10 THEN << DecDigits[n + 1] >>
    ELSE FormatNat(n \div 10) \o << DecDigits[(n % 10) + 1] >>

\* '%d' % n
FormatD(n) == IF n < 0 THEN <<"-">> \o FormatNat(0 - n) ELSE FormatNat(n)

DigitValue(c) == CHOOSE d \in 0..9 : DecDigits[d + 1] = c

IsDigit(c) == \E d \in 1..10 : DecDigits[d] = c

RECURSIVE DigitsValue(_)
DigitsValue(s) ==
    IF Len(s) = 0 THEN 0
    ELSE 10 * DigitsValue(SubSeq(s, 1, Len(s) - 1)) + DigitValue(s[Len(s)])

\* int(s): ok is FALSE where Python raises ValueError.  Covers an optional
\* sign followed by decimal digits (the strings built from the alphabet used
\* here contain neither white space nor underscores).
ParseInt(s) ==
    LET signed == Len(s) > 0 /\ s[1] \in {"-", "+"}
        digits == IF signed THEN SubSeq(s, 2, Len(s)) ELSE s
    IN  IF Len(digits) > 0 /\ \A i \in 1..Len(digits) : IsDigit(digits[i])
        THEN [ok |-> TRUE,
              val |-> IF signed /\ s[1] = "-" THEN 0 - DigitsValue(digits)
                      ELSE DigitsValue(digits)]
        ELSE [ok |-> FALSE, val |-> 0]

\* s.rfind(c): 0-based index of the last c in s, -1 if there is none
RFind(s, c) ==
    LET hits == {i \in 1..Len(s) : s[i] = c}
    IN  IF hits = {} THEN 0 - 1
        ELSE (CHOOSE i \in hits : \A j \in hits : j <= i) - 1

RECURSIVE Split(_, _)
\* s.split(sep) for a one-character separator
Split(s, sep) ==
    LET hits == {i \in 1..Len(s) : s[i] = sep}
    IN  IF hits = {} THEN << s >>
        ELSE LET i == CHOOSE k \in hits : \A j \in hits : k <= j
             IN  << SubSeq(s, 1, i - 1) >> \o Split(SubSeq(s, i + 1, Len(s)), sep)

RECURSIVE Join(_, _)
\* sep.join(segs)
Join(segs, sep) ==
    IF Len(segs) = 0 THEN << >>
    ELSE IF Len(segs) = 1 THEN segs[1]
    ELSE segs[1] \o << sep >> \o Join(Tail(segs), sep)

Reverse(s) == [i \in 1..Len(s) |-> s[Len(s) + 1 - i]]

\* os.path.basename(p) (posixpath): what follows the last '/'
Basename(p) == SubSeq(p, RFind(p, "/") + 2, Len(p))

RECURSIVE QuoteNoHash(_)
\* a quoting that forgets '#'
QuoteNoHash(s) ==
    IF Len(s) = 0 THEN << >>
    ELSE (IF s[1] \in {"%", "/"} THEN <<"%">> \o FormatX2(Ord(s[1]))
          ELSE << s[1] >>) \o QuoteNoHash(Tail(s))

RECURSIVE _quotename(_)
\* re.sub(r'[%/#]', lambda m: '%%%02X' % ord(m.group(0)), s)
_quotename(s) ==
    IF Len(s) = 0 THEN << >>
    ELSE (IF s[1] \in {"%", "/", "#"} THEN <<"%">> \o FormatX2(Ord(s[1]))
          ELSE << s[1] >>) \o _quotename(Tail(s))


\* ------------------------------------------------------------------------
\* State
\* ------------------------------------------------------------------------

VARIABLES
    items,      \* the RepoTreeItem objects: id -> fields (cls "free": not created)
    lookup,     \* the last findbyitempath call: its path, its result
    registry,   \* the last registry document written and what was read back, or
                \* the last discovery of subrepositories
    treeop,     \* the last tree operation performed, and whether an item that
                \* was in a tree already was ever appended or inserted
    sw,         \* the StatusWidget object
    tm,         \* the WctxModel of its file list
    upd,        \* the last call of StatusWidget._updatePartials
    threads,    \* the StatusThread objects
    ct,         \* the custom tools and hooks panels and the configuration they edit
    ig,         \* the ignore filter dialog and the ignore file it edits
    ws,         \* the workbench server, a client of it and the socket between them
    qr,         \* the QtRunner of one process: its exception catcher and the hooks of the process
    dk,         \* a DialogKeeper and the dialogs it has created
    wc          \* an ini file and the writable configs loaded from it

treeVars == << items, lookup, registry, treeop >>
statusVars == << sw, tm, upd, threads >>
appVars == << qr, dk, wc >>
otherVars == << ct, ig, ws, qr, dk, wc >>

vars == << items, lookup, registry, treeop, sw, tm, upd, threads, ct, ig, ws, qr, dk, wc >>

\* ------------------------------------------------------------------------
\* Tree items (repotreeitem.py)
\* ------------------------------------------------------------------------

\* the value of an unset parent; item ids are 1..MaxItems+1
None == 0
\* the root RepoTreeItem of the registry
RootItem == 1
ItemIds == 1..(MaxItems + 1)

\* node.nullid, shortened to two bytes
nullid == << 0, 0 >>

GroupClasses == {"RepoGroupItem", "AllRepoGroupItem"}
RepoClasses == {"RepoItem", "StandaloneSubrepoItem", "SubrepoItem", "AlienSubrepoItem"}

FreeItem ==
    [cls |-> "free", name |-> << >>, root |-> << >>, shortname |-> << >>,
     basenode |-> nullid, sharedpath |-> << >>, repotype |-> << >>,
     valid |-> TRUE, parent |-> None, childs |-> << >>, row |-> 0]

\* RepoTreeItem.__init__
RepoTreeItem == [FreeItem EXCEPT !.cls = "RepoTreeItem"]

\* RepoGroupItem.__init__(name)
RepoGroupItem(name) == [FreeItem EXCEPT !.cls = "RepoGroupItem", !.name = name]

\* RepoGroupItem.setData(0, value) on item g of the store st
groupSetData(st, g, value) == [st EXCEPT ![g].name = value]

\* AllRepoGroupItem.__init__(name): name or _('default')
AllRepoGroupItem(name) ==
    [FreeItem EXCEPT !.cls = "AllRepoGroupItem",
                     !.name = IF name = << >> THEN <<"d">> ELSE name]

\* RepoItem.__init__(root, shortname, basenode, sharedpath) for the class cls.
\* shortname and sharedpath: None and '' both give ''.  basenode is passed
\* as << >> for None and as << b >> for the bytes b.
RepoItem(cls, root, shortname, basenode, sharedpath) ==
    [FreeItem EXCEPT !.cls = cls, !.root = root, !.shortname = shortname,
                     !.basenode = IF basenode = << >> THEN nullid ELSE basenode[1],
                     !.sharedpath = sharedpath]

\* AlienSubrepoItem.__init__(root, repotype)
AlienSubrepoItem(root, repotype) ==
    [RepoItem("AlienSubrepoItem", root, << >>, << >>, << >>)
        EXCEPT !.repotype = repotype]

\* _newSubrepoItem(root, repotype)
_newSubrepoItem(root, repotype) ==
    IF repotype = <<"h","g">> THEN RepoItem("SubrepoItem", root, << >>, << >>, << >>)
    ELSE AlienSubrepoItem(root, repotype)

\* item.shortname() of the item record it
shortname(it) ==
    IF it.cls \in GroupClasses THEN it.name
    ELSE IF it.cls \in RepoClasses
         THEN (IF it.shortname # << >> THEN it.shortname ELSE Basename(it.root))
    ELSE << >>

\* item.repotype()
repotype(it) ==
    IF it.cls = "AlienSubrepoItem" THEN it.repotype
    ELSE IF it.cls \in RepoClasses THEN <<"h","g">>
    ELSE << >>

Created == {i \in ItemIds : items[i].cls # "free"}

RECURSIVE AncestorsIn(_, _, _)
\* the items met walking parent() from i, at most n steps
AncestorsIn(st, i, n) ==
    IF n = 0 \/ st[i].parent = None THEN {}
    ELSE {st[i].parent} \cup AncestorsIn(st, st[i].parent, n - 1)

Ancestors(i) == AncestorsIn(items, i, MaxItems + 1)

\* flatten(root): root and the items below it
Flatten(r) == {r} \cup {i \in Created : r \in Ancestors(i)}

Range(s) == {s[i] : i \in 1..Len(s)}

\* an item no child list holds and no parent is set for
Detached(i) ==
    /\ items[i].parent = None
    /\ \A p \in Created : i \notin Range(items[p].childs)

\* the 0-based position of the last x in seq
LastIndexOf(seq, x) ==
    (CHOOSE k \in 1..Len(seq) : seq[k] = x /\ \A j \in (k + 1)..Len(seq) : seq[j] # x) - 1

\* RepoTreeItem.appendChild applied to the store st
appendChild(st, p, c) ==
    [st EXCEPT ![c].row = Len(st[p].childs),
               ![c].parent = p,
               ![p].childs = Append(st[p].childs, c)]

\* RepoTreeItem.insertChild applied to the store st (list.insert(row, child))
insertChild(st, p, row, c) ==
    LET cs == st[p].childs
        at == IF row > Len(cs) THEN Len(cs) ELSE row
    IN  [st EXCEPT ![c].row = row,
                   ![c].parent = p,
                   ![p].childs = SubSeq(cs, 1, at) \o << c >> \o SubSeq(cs, at + 1, Len(cs))]

\* RepoTreeItem.removeRows applied to the store st
removeRows(st, p, row, count) ==
    LET cs == st[p].childs
        remove == SubSeq(cs, row + 1, row + count)
        keep == SubSeq(cs, 1, row) \o SubSeq(cs, row + count + 1, Len(cs))
    IN  [i \in ItemIds |->
            [st[i] EXCEPT
                !.childs = IF i = p THEN keep ELSE @,
                !.parent = IF i \in Range(remove) THEN None ELSE @,
                !.row = IF i \in Range(keep) THEN LastIndexOf(keep, i)
                        ELSE IF i \in Range(remove) THEN 0 ELSE @]]

\* ------------------------------------------------------------------------
\* Virtual paths (repotreeitem.py)
\* ------------------------------------------------------------------------

\* _buildquotenamemap(st[p].childs)[q]: the children of p whose quoted
\* short name is q, in child order (<< >> stands for a missing key)
NameMapEntry(st, p, q) ==
    SelectSeq(st[p].childs, LAMBDA c : _quotename(shortname(st[c])) = q)

\* list.index(x): 0-based position of the first x
IndexOf(seq, x) == (CHOOSE k \in 1..Len(seq) : seq[k] = x /\ \A j \in 1..(k - 1) : seq[j] # x) - 1

RECURSIVE RNames(_, _, _)
\* the rnames list itempath builds: the segments from the item upwards
\* (n bounds the walk; a strict forest is never deeper than its item count)
RNames(st, i, n) ==
    IF st[i].parent = None \/ n = 0 THEN << >>
    ELSE LET q == _quotename(shortname(st[i]))
             k == IndexOf(NameMapEntry(st, st[i].parent, q), i)
             seg == IF k = 0 THEN q ELSE q \o <<"#">> \o FormatD(k)
         IN  << seg >> \o RNames(st, st[i].parent, n - 1)

\* itempath(item)
itempath(st, i) == Join(Reverse(RNames(st, i, MaxItems + 1)), "/")

\* findbyitempath returns an item or raises ValueError(err)
Found(i) == [item |-> i, err |-> ""]
Raised(msg) == [item |-> None, err |-> msg]
NotFound == Raised("not found")
InvalidPath == Raised("invalid path")

RECURSIVE FindSegments(_, _, _)
\* the loop of findbyitempath over path.split('/'), from item
FindSegments(st, item, segs) ==
    IF Len(segs) = 0 THEN Found(item)
    ELSE LET q0 == segs[1]
             h == RFind(q0, "#")
             n == ParseInt(SubSeq(q0, h + 2, Len(q0)))
         IN  IF h >= 0 /\ ~n.ok THEN InvalidPath
             ELSE LET i == IF h >= 0 THEN n.val ELSE 0
                      q == IF h >= 0 THEN SubSeq(q0, 1, h) ELSE q0
                      found == NameMapEntry(st, item, q)
                      \* Python indexing: -len..-1 count from the end
                      at == IF i < 0 THEN Len(found) + i ELSE i
                  IN  IF at < 0 \/ at >= Len(found) THEN NotFound
                      ELSE FindSegments(st, found[at + 1], Tail(segs))

\* findbyitempath(root, path)
findbyitempath(st, root, path) ==
    IF path = << >> THEN Found(root) ELSE FindSegments(st, root, Split(path, "/"))

\* ------------------------------------------------------------------------
\* Tree operations as actions
\* ------------------------------------------------------------------------

\* short names given to groups: plain, empty, and with the characters
\* _quotename replaces
PathNames == { <<"a">>, << >>, <<"a","#","1">>, <<"%","/">> }

NoLookup == [kind |-> "none", path |-> << >>, result |-> Raised(""), rpath |-> << >>,
             under |-> None, q |-> << >>, n |-> 0]
NoRegistry == [written |-> FALSE]
TreeOp(name) == [name |-> name, reused |-> treeop.reused]

InitItems == [i \in ItemIds |-> IF i = RootItem THEN RepoTreeItem ELSE FreeItem]

\* objects are created in the order of their ids
NextFree(i) == items[i].cls = "free" /\ \A j \in ItemIds : j < i => items[j].cls # "free"

\* a new RepoGroupItem(name), not yet in any tree
NewGroupItem(names) ==
    \E i \in ItemIds, name \in names :
        /\ ~treeop.reused
        /\ NextFree(i)
        /\ items' = [items EXCEPT ![i] = RepoGroupItem(name)]
        /\ treeop' = TreeOp("new")
        /\ lookup' = NoLookup
        /\ UNCHANGED << registry, statusVars, otherVars >>

\* c may become a child of p without breaking the tree: it is in no tree yet
\* (as at the call sites, _undumpChild and appendSubrepos, which pass the item
\* they just built) and is not p or an item above p
Fresh(p, c) == Detached(c) /\ p \notin Flatten(c)

\* p.appendChild(c); the calls are followed up to the first one that is given
\* an item that is not fresh
AppendChild ==
    \E p \in Created, c \in Created :
        /\ ~treeop.reused
        /\ items' = appendChild(items, p, c)
        /\ treeop' = [name |-> "appendChild", reused |-> treeop.reused \/ ~Fresh(p, c)]
        /\ lookup' = NoLookup
        /\ UNCHANGED << registry, statusVars, otherVars >>

\* p.insertChild(row, c), likewise
InsertChild ==
    \E p \in Created, c \in Created :
        \E row \in 0..Len(items[p].childs) :
            /\ ~treeop.reused
            /\ items' = insertChild(items, p, row, c)
            /\ treeop' = [name |-> "insertChild", reused |-> treeop.reused \/ ~Fresh(p, c)]
            /\ lookup' = NoLookup
            /\ UNCHANGED << registry, statusVars, otherVars >>

\* p.removeRows(row, count)
RemoveRows ==
    \E p \in Created :
        \E row \in 0..Len(items[p].childs), count \in 1..MaxItems :
            /\ ~treeop.reused
            /\ row + count <= Len(items[p].childs)
            /\ items' = removeRows(items, p, row, count)
            /\ treeop' = TreeOp("removeRows")
            /\ lookup' = NoLookup
            /\ UNCHANGED << registry, statusVars, otherVars >>

\* p.appendChild(RepoGroupItem(name)), as in the doctest of findbyitempath
AddGroup ==
    \E i \in ItemIds, p \in Flatten(RootItem), name \in PathNames :
        /\ NextFree(i)
        /\ i <= MaxPathItems + 1
        /\ items' = appendChild([items EXCEPT ![i] = RepoGroupItem(name)], p, i)
        /\ treeop' = TreeOp("appendChild")
        /\ lookup' = NoLookup
        /\ UNCHANGED << registry, statusVars, otherVars >>

\* findbyitempath(root, itempath(i)) for an item i of the tree
LookupItemPath ==
    \E i \in Flatten(RootItem) :
        LET path == itempath(items, i)
            r == findbyitempath(items, RootItem, path)
        IN  /\ lookup' = [kind |-> "itempath", path |-> path, result |-> r,
                          rpath |-> IF r.err = "" THEN itempath(items, r.item) ELSE << >>,
                          under |-> items[i].parent,
                          q |-> _quotename(shortname(items[i])), n |-> 0]
            /\ treeop' = TreeOp("findbyitempath")
            /\ UNCHANGED << items, registry, statusVars, otherVars >>

\* findbyitempath(root, path) for a path whose last segment is '<name>#<n>',
\* <name> the quoted name of a child of an item of the tree
LookupIndexed ==
    \E i \in Flatten(RootItem) \ {RootItem}, n \in (0 - MaxProbe)..MaxProbe :
        LET q == _quotename(shortname(items[i]))
            up == Reverse(RNames(items, items[i].parent, MaxItems + 1))
            path == Join(up \o << q \o <<"#">> \o FormatD(n) >>, "/")
            r == findbyitempath(items, RootItem, path)
        IN  /\ lookup' = [kind |-> "indexed", path |-> path, result |-> r,
                          rpath |-> IF r.err = "" THEN itempath(items, r.item) ELSE << >>,
                          under |-> items[i].parent, q |-> q, n |-> n]
            /\ treeop' = TreeOp("findbyitempath")
            /\ UNCHANGED << items, registry, statusVars, otherVars >>

InitTree ==
    /\ items = InitItems
    /\ lookup = NoLookup
    /\ registry = NoRegistry
    /\ treeop = [name |-> "init", reused |-> FALSE]

\* tree mutation through appendChild, insertChild and removeRows
NextItems ==
    \/ NewGroupItem({ <<"a">> })
    \/ AppendChild
    \/ InsertChild
    \/ RemoveRows


\* trees of named groups and lookups by virtual path
NextPaths ==
    \/ AddGroup
    \/ LookupItemPath
    \/ LookupIndexed


\* ------------------------------------------------------------------------
\* The registry document (repotreeitem.py dump / undump)
\* ------------------------------------------------------------------------

\* number of items besides the root item in a registry forest
MaxRegItems == 3

\* the stream the XML writer produces and the reader walks: a start token
\* carries the element's tag and the attributes written for it
StartElement(tag, attrs) == [t |-> "start", name |-> tag, attrs |-> attrs]
EndElement == [t |-> "end", name |-> "", attrs |-> << >>]
EndDocument == [t |-> "enddoc", name |-> "", attrs |-> << >>]

\* attributes().value('', key): '' when the attribute is missing
AttrValue(attrs, key) ==
    IF \E k \in 1..Len(attrs) : attrs[k][1] = key
    THEN attrs[CHOOSE k \in 1..Len(attrs) : attrs[k][1] = key][2]
    ELSE << >>

RECURSIVE hex(_)
\* node.hex(b): two lower-case hex digits per byte
hex(b) ==
    IF Len(b) = 0 THEN << >>
    ELSE << LowerHexDigits[(b[1] \div 16) + 1], LowerHexDigits[(b[1] % 16) + 1] >>
         \o hex(Tail(b))

HexValue(c) == CHOOSE d \in 0..15 : LowerHexDigits[d + 1] = c \/ HexDigits[d + 1] = c

RECURSIVE bin(_)
\* node.bin(s): one byte per two hex digits
bin(s) ==
    IF Len(s) < 2 THEN << >>
    ELSE << 16 * HexValue(s[1]) + HexValue(s[2]) >> \o bin(SubSeq(s, 3, Len(s)))

\* cls.xmltagname
xmltagname(cls) ==
    CASE cls = "RepoTreeItem" -> "treeitem"
      [] cls = "RepoGroupItem" -> "group"
      [] cls = "AllRepoGroupItem" -> "allgroup"
      [] cls = "RepoItem" -> "repo"
      [] cls \in {"StandaloneSubrepoItem", "SubrepoItem", "AlienSubrepoItem"} -> "subrepo"

\* the writeAttribute calls of dump() for the item record it
DumpAttrs(it) ==
    IF it.cls = "AlienSubrepoItem"
    THEN << <<"root", it.root>>, <<"repotype", it.repotype>> >>
    ELSE IF it.cls \in RepoClasses
    THEN << <<"root", it.root>>, <<"shortname", shortname(it)>>,
            <<"basenode", hex(it.basenode)>> >>
         \o (IF it.sharedpath # << >> THEN << <<"sharedpath", it.sharedpath>> >> ELSE << >>)
    ELSE IF it.cls \in GroupClasses THEN << <<"name", it.name>> >>
    ELSE << >>

RECURSIVE dumpObject(_, _)
RECURSIVE _dumpChild(_, _)
\* _dumpChild(xw, parent) for the child list cs
_dumpChild(st, cs) ==
    IF Len(cs) = 0 THEN << >>
    ELSE dumpObject(st, cs[1]) \o _dumpChild(st, Tail(cs))

\* item.dumpObject(xw): the tokens written (AlienSubrepoItem.dump writes no child)
dumpObject(st, i) ==
    << StartElement(xmltagname(st[i].cls), DumpAttrs(st[i])) >>
    \o (IF st[i].cls = "AlienSubrepoItem" THEN << >> ELSE _dumpChild(st, st[i].childs))
    \o << EndElement >>

\* an object read back: the fields of an item and the objects appended to it
Obj(it) ==
    [cls |-> it.cls, name |-> it.name, root |-> it.root, shortname |-> it.shortname,
     basenode |-> it.basenode, sharedpath |-> it.sharedpath, repotype |-> it.repotype,
     childs |-> << >>]

\* xr.atEnd()
atEnd(ev, pos) == pos >= Len(ev) \/ ev[pos].t = "enddoc"

RECURSIVE SkipFrom(_, _, _)
\* readNext() until depth open elements are closed
SkipFrom(ev, pos, depth) ==
    IF atEnd(ev, pos) THEN pos
    ELSE LET nx == pos + 1
         IN  IF ev[nx].t = "start" THEN SkipFrom(ev, nx, depth + 1)
             ELSE IF ev[nx].t = "end"
                  THEN (IF depth = 1 THEN nx ELSE SkipFrom(ev, nx, depth - 1))
             ELSE SkipFrom(ev, nx, depth)

\* xr.skipCurrentElement()
skipCurrentElement(ev, pos) == SkipFrom(ev, pos, 1)

\* _xmlUndumpMap
_xmlUndumpMap ==
    [allgroup |-> "AllRepoGroupItem", group |-> "RepoGroupItem", repo |-> "RepoItem",
     subrepo |-> "StandaloneSubrepoItem", treeitem |-> "RepoTreeItem"]

RECURSIVE undump(_, _, _)
RECURSIVE _undumpChild(_, _, _, _)

\* undumpObject(xr), the reader at the start token pos.  keyerror: the tag
\* is not in _xmlUndumpMap (KeyError is raised before anything is read)
undumpObject(ev, pos) ==
    IF ev[pos].name \notin DOMAIN _xmlUndumpMap
    THEN [keyerror |-> TRUE, obj |-> Obj(FreeItem), pos |-> pos]
    ELSE undump(_xmlUndumpMap[ev[pos].name], ev, pos)

\* _undumpSubrepoItem(xr)
_undumpSubrepoItem(ev, pos) ==
    LET rt == AttrValue(ev[pos].attrs, "repotype")
        type == IF rt = << >> THEN <<"h","g">> ELSE rt
    IN  IF type = <<"h","g">> THEN undump("SubrepoItem", ev, pos)
        ELSE undump("AlienSubrepoItem", ev, pos)

\* cls.undump(xr)
undump(cls, ev, pos) ==
    LET a == ev[pos].attrs
    IN  IF cls = "RepoTreeItem"
        THEN _undumpChild(ev, pos, Obj(RepoTreeItem), "object")
        ELSE IF cls = "RepoGroupItem"
        THEN _undumpChild(ev, pos, Obj(RepoGroupItem(AttrValue(a, "name"))), "object")
        ELSE IF cls = "AllRepoGroupItem"
        THEN _undumpChild(ev, pos, Obj(AllRepoGroupItem(AttrValue(a, "name"))), "object")
        ELSE IF cls = "AlienSubrepoItem"
        THEN [keyerror |-> FALSE,
              obj |-> Obj(AlienSubrepoItem(AttrValue(a, "root"), AttrValue(a, "repotype"))),
              pos |-> skipCurrentElement(ev, pos)]
        ELSE _undumpChild(ev, pos,
                          Obj(RepoItem(cls, AttrValue(a, "root"), AttrValue(a, "shortname"),
                                       << bin(AttrValue(a, "basenode")) >>,
                                       AttrValue(a, "sharedpath"))),
                          "subrepo")

\* _undumpChild(xr, parent, undump): the loop, from the reader position pos;
\* how is "object" for undump=undumpObject, "subrepo" for _undumpSubrepoItem
_undumpChild(ev, pos, parent, how) ==
    IF atEnd(ev, pos) THEN [keyerror |-> FALSE, obj |-> parent, pos |-> pos]
    ELSE LET nx == pos + 1
         IN  IF ev[nx].t = "start"
             THEN LET r == IF how = "object" THEN undumpObject(ev, nx)
                           ELSE _undumpSubrepoItem(ev, nx)
                  IN  IF r.keyerror THEN _undumpChild(ev, nx, parent, how)
                      ELSE _undumpChild(ev, r.pos,
                                        [parent EXCEPT !.childs = Append(@, r.obj)], how)
             ELSE IF ev[nx].t = "end"
             THEN [keyerror |-> FALSE, obj |-> parent, pos |-> nx]
             ELSE _undumpChild(ev, nx, parent, how)

RECURSIVE TreeOf(_, _)
\* the item i of the store with the items below it, as objects
TreeOf(st, i) ==
    [Obj(st[i]) EXCEPT !.childs = [k \in 1..Len(st[i].childs) |-> TreeOf(st, st[i].childs[k])]]

RECURSIVE Observable(_)
\* what the accessors of an object and of the objects below it return
Observable(o) ==
    [cls |-> o.cls, name |-> o.name, root |-> o.root, shortname |-> shortname(o),
     basenode |-> o.basenode, sharedpath |-> o.sharedpath, repotype |-> repotype(o),
     childs |-> [k \in 1..Len(o.childs) |-> Observable(o.childs[k])]]

\* ------------------------------------------------------------------------
\* Building a registry forest, writing it and reading it back
\* ------------------------------------------------------------------------

GroupNames == { << >>, <<"g">> }
\* arguments of RepoItem(root, shortname, basenode, sharedpath): a named
\* shared repository, one named after its directory, one at '/'
RepoArgs ==
    { << <<"/","a">>, <<"b">>, << <<171, 5>> >>, <<"/","s">> >>,
      << <<"/","a">>, << >>, << >>, << >> >>,
      << <<"/">>, << >>, << >>, << >> >> }
SubrepoRoots == { <<"/","a","/","s">> }
SubrepoTypes == { <<"h","g">>, <<"g","i","t">> }

RegNextFree(i) == NextFree(i) /\ i <= MaxRegItems + 1

\* a group or the default group is added to the root item
AddRegistryGroup ==
    \E i \in ItemIds, cls \in GroupClasses, name \in GroupNames :
        /\ RegNextFree(i)
        /\ items' = appendChild(
               [items EXCEPT ![i] = IF cls = "AllRepoGroupItem" THEN AllRepoGroupItem(name)
                                    ELSE RepoGroupItem(name)],
               RootItem, i)
        /\ treeop' = TreeOp("appendChild")
        /\ registry' = NoRegistry
        /\ UNCHANGED << lookup, statusVars, otherVars >>

\* a repository, or a subrepo shown on its own, is added to a group
AddRepo ==
    \E i \in ItemIds, g \in Created, cls \in {"RepoItem", "StandaloneSubrepoItem"},
       a \in RepoArgs :
        /\ RegNextFree(i)
        /\ items[g].cls \in GroupClasses
        /\ items' = appendChild(
               [items EXCEPT ![i] = RepoItem(cls, a[1], a[2], a[3], a[4])], g, i)
        /\ treeop' = TreeOp("appendChild")
        /\ registry' = NoRegistry
        /\ UNCHANGED << lookup, statusVars, otherVars >>

\* appendSubrepos: one subrepo of the working copy is appended to a repo item
AppendSubrepo ==
    \E i \in ItemIds, r \in Created, root \in SubrepoRoots, type \in SubrepoTypes :
        /\ RegNextFree(i)
        /\ items[r].cls \in {"RepoItem", "StandaloneSubrepoItem", "SubrepoItem"}
        /\ items' = appendChild([items EXCEPT ![i] = _newSubrepoItem(root, type)], r, i)
        /\ treeop' = TreeOp("appendChild")
        /\ registry' = NoRegistry
        /\ UNCHANGED << lookup, statusVars, otherVars >>

\* the user renames a group, through RepoGroupItem.setData
RenameGroup ==
    \E g \in Created, name \in GroupNames :
        /\ items[g].cls \in GroupClasses
        /\ items[g].name # name
        /\ items' = groupSetData(items, g, name)
        /\ treeop' = TreeOp("setData")
        /\ registry' = NoRegistry
        /\ UNCHANGED << lookup, statusVars, otherVars >>

\* the root item is written with dumpObject and the document is read back
\* with undumpObject
DumpUndump ==
    LET xml == dumpObject(items, RootItem) \o << EndDocument >>
        r == undumpObject(xml, 1)
    IN  /\ registry' = [written |-> TRUE, xml |-> xml,
                        saved |-> TreeOf(items, RootItem),
                        keyerror |-> r.keyerror, loaded |-> r.obj]
        /\ treeop' = TreeOp("undumpObject")
        /\ UNCHANGED << items, lookup, statusVars, otherVars >>

\* a sequence of tokens that is a list of complete elements: open is the
\* number of elements not closed yet
RECURSIVE Balanced(_, _)
Balanced(toks, open) ==
    IF Len(toks) = 0 THEN open = 0
    ELSE IF toks[1].t = "start" THEN Balanced(Tail(toks), open + 1)
    ELSE open > 0 /\ Balanced(Tail(toks), open - 1)

\* a tag that _xmlUndumpMap does not list
UnknownTag == "unknown"

\* the registry document of the forest with an element of an unknown type
\* written around the elements doc[a + 1 .. b] (around nothing if a = b), as
\* a later version of the program may write it, is read with undumpObject.
\* without: the same document less the unknown element and its content.
UndumpForeign ==
    LET doc == dumpObject(items, RootItem)
        n == Len(doc)
    IN  \E a \in 1..(n - 1) : \E b \in a..(n - 1) :
            /\ Balanced(SubSeq(doc, a + 1, b), 0)
            /\ LET xml == SubSeq(doc, 1, a) \o << StartElement(UnknownTag, << >>) >>
                          \o SubSeq(doc, a + 1, b) \o << EndElement >>
                          \o SubSeq(doc, b + 1, n) \o << EndDocument >>
                   without == SubSeq(doc, 1, a) \o SubSeq(doc, b + 1, n)
                              \o << EndDocument >>
                   r == undumpObject(xml, 1)
               IN  /\ registry' = [written |-> FALSE, op |-> "undumpForeign",
                                   xml |-> xml, inside |-> b - a,
                                   loaded |-> r.obj,
                                   expected |-> undumpObject(without, 1).obj]
                   /\ treeop' = TreeOp("undumpObject")
                   /\ UNCHANGED << items, lookup, statusVars, otherVars >>

\* registry forests and documents with an element of an unknown type
NextForeign ==
    \/ AddRegistryGroup
    \/ AddRepo
    \/ AppendSubrepo
    \/ UndumpForeign

NextRegistry ==
    \/ AddRegistryGroup
    \/ AddRepo
    \/ AppendSubrepo
    \/ RenameGroup
    \/ DumpUndump


\* ------------------------------------------------------------------------
\* Discovery of subrepositories (RepoItem.appendSubrepos)
\* ------------------------------------------------------------------------

\* the most subrepos of one repository
MaxSubs == 2

\* a repository on disk, as appendSubrepos finds it.  exists: the root
\* directory exists; marker: it has .hgsub or .hg/sharedpath; opens: "ok",
\* or the error raised by hg.repository or repo[b'.'] ("RepoError" for
\* OSError, RepoError and Abort, "Exception" for any other); subs: the
\* entries of wctx.substate in the order of the sort
Repo(root, exists, marker, opens, shared, subs) ==
    [root |-> root, exists |-> exists, marker |-> marker, opens |-> opens,
     shared |-> shared, subs |-> subs]

\* an entry of the substate: its path below the root, its type, whether
\* repo.wjoin(subpath) is a directory, the error raised by wctx.sub(subpath)
\* if any, and the repository found there
Sub(name, type, isdir, opens, repo) ==
    [name |-> name, type |-> type, isdir |-> isdir, opens |-> opens, repo |-> repo]

\* repo.wjoin(subpath)
wjoin(root, name) == root \o <<"/">> \o name

\* an item of the tree as an object with its valid flag
SubObj(it) ==
    [cls |-> it.cls, root |-> it.root, repotype |-> repotype(it),
     sharedpath |-> it.sharedpath, valid |-> it.valid, childs |-> << >>]

\* the except clauses of appendSubrepos: self is marked invalid, and so is
\* the subrepo at hand (the last child), if there is one; an exception
\* other than OSError, RepoError and Abort is shown in a warning box and
\* raised again when the user answers Abort
SubreposExcept(self, hassri, abssubpath, invalid, kind, abort) ==
    LET n == Len(self.childs)
        self1 == [self EXCEPT !.valid = FALSE]
        self2 == IF hassri THEN [self1 EXCEPT !.childs[n].valid = FALSE] ELSE self1
        inv == (IF hassri THEN Append(invalid, abssubpath) ELSE invalid) \o << self.root >>
    IN  [item |-> self2, invalid |-> inv, raised |-> kind = "Exception" /\ abort]

RECURSIVE appendSubrepos(_, _, _, _)
RECURSIVE SubreposLoopContinues(_, _, _, _, _)
RECURSIVE SubreposLoop(_, _, _, _, _)

\* the loop of appendSubrepos, going on after a subrepo that is no directory
SubreposLoopContinues(self, repo, k, invalid, abort) ==
    IF k > Len(repo.subs) THEN [item |-> self, invalid |-> invalid, raised |-> FALSE]
    ELSE
    LET e == repo.subs[k]
        abssubpath == wjoin(repo.root, e.name)
        sri == [SubObj(_newSubrepoItem(abssubpath, e.type)) EXCEPT !.valid = e.isdir]
        self1 == [self EXCEPT !.childs = Append(@, sri)]
        n == Len(self1.childs)
    IN  IF ~e.isdir
        THEN SubreposLoopContinues([self1 EXCEPT !.valid = FALSE], repo, k + 1,
                                   Append(invalid, abssubpath), abort)
        ELSE IF e.type # <<"h","g">>
        THEN SubreposLoopContinues(self1, repo, k + 1, invalid, abort)
        ELSE IF e.opens # "ok"
        THEN SubreposExcept(self1, TRUE, abssubpath, invalid, e.opens, abort)
        ELSE LET r == appendSubrepos(sri, e.repo, TRUE, abort)
                 self2 == [self1 EXCEPT !.childs[n] = r.item]
             IN  IF r.raised
                 THEN SubreposExcept(self2, TRUE, abssubpath, invalid, "Exception", abort)
                 ELSE IF r.invalid # << >>
                 THEN SubreposLoopContinues([self2 EXCEPT !.valid = FALSE], repo, k + 1,
                                            invalid \o r.invalid, abort)
                 ELSE SubreposLoopContinues(self2, repo, k + 1, invalid, abort)

\* the loop of appendSubrepos over sorted(wctx.substate), from entry k
SubreposLoop(self, repo, k, invalid, abort) ==
    IF k > Len(repo.subs) THEN [item |-> self, invalid |-> invalid, raised |-> FALSE]
    ELSE
    LET e == repo.subs[k]
        abssubpath == wjoin(repo.root, e.name)
        sri == [SubObj(_newSubrepoItem(abssubpath, e.type)) EXCEPT !.valid = e.isdir]
        self1 == [self EXCEPT !.childs = Append(@, sri)]
        n == Len(self1.childs)
    IN  IF ~e.isdir
        THEN [item |-> [self1 EXCEPT !.valid = FALSE],
              invalid |-> Append(invalid, abssubpath), raised |-> FALSE]
        ELSE IF e.type # <<"h","g">>
        THEN SubreposLoop(self1, repo, k + 1, invalid, abort)
        ELSE IF e.opens # "ok"
        THEN SubreposExcept(self1, TRUE, abssubpath, invalid, e.opens, abort)
        ELSE LET r == appendSubrepos(sri, e.repo, TRUE, abort)
                 self2 == [self1 EXCEPT !.childs[n] = r.item]
             IN  IF r.raised
                 THEN SubreposExcept(self2, TRUE, abssubpath, invalid, "Exception", abort)
                 ELSE IF r.invalid # << >>
                 THEN SubreposLoop([self2 EXCEPT !.valid = FALSE], repo, k + 1,
                                   invalid \o r.invalid, abort)
                 ELSE SubreposLoop(self2, repo, k + 1, invalid, abort)

\* RepoItem.appendSubrepos(repo) on the item self; given: repo is not None;
\* abort: the user's answer to the warning box
appendSubrepos(self, repo, given, abort) ==
    LET self0 == [self EXCEPT !.sharedpath = << >>]
    IN  IF ~given /\ ~repo.exists
        THEN [item |-> [self0 EXCEPT !.valid = FALSE], invalid |-> << self.root >>,
              raised |-> FALSE]
        ELSE IF ~given /\ ~repo.marker
        THEN [item |-> self0, invalid |-> << >>, raised |-> FALSE]
        ELSE IF repo.opens # "ok"
        THEN SubreposExcept(self0, FALSE, << >>, << >>, repo.opens, abort)
        ELSE SubreposLoop(IF repo.shared THEN [self0 EXCEPT !.sharedpath = <<"/","s">>]
                          ELSE self0,
                          repo, 1, << >>, abort)

\* the working copies explored: no repository where none is looked at
NoRepo == Repo(<< >>, FALSE, FALSE, "ok", FALSE, << >>)
SubNames == << <<"s","1">>, <<"s","2">>, <<"s","3">> >>
HgType == <<"h","g">>

\* substate entries without a repository of their own to look into: a git
\* subrepo, a subrepo whose directory is missing, and Mercurial subrepos
\* that wctx.sub cannot open
PlainSubs(name) ==
    { Sub(name, <<"g","i","t">>, TRUE, "ok", NoRepo),
      Sub(name, HgType, FALSE, "ok", NoRepo),
      Sub(name, HgType, TRUE, "RepoError", NoRepo),
      Sub(name, HgType, TRUE, "Exception", NoRepo) }

\* subrepos that have no subrepos themselves, readable or not
LeafRepos(root) ==
    { Repo(root, TRUE, TRUE, "ok", FALSE, << >>),
      Repo(root, TRUE, TRUE, "RepoError", FALSE, << >>) }

InnerSubs(root, name) ==
    PlainSubs(name) \cup { Sub(name, HgType, TRUE, "ok", r) : r \in LeafRepos(wjoin(root, name)) }

\* subrepos with at most one subrepo
SubRepos(root) ==
    LeafRepos(root)
        \cup { Repo(root, TRUE, TRUE, "ok", FALSE, << e >>) : e \in InnerSubs(root, SubNames[1]) }

OuterSubs(root, name) ==
    PlainSubs(name) \cup { Sub(name, HgType, TRUE, "ok", r) : r \in SubRepos(wjoin(root, name)) }

RECURSIVE SubSeqs(_, _)
\* the substates of up to n entries
SubSeqs(root, n) ==
    IF n = 0 THEN { << >> }
    ELSE LET shorter == SubSeqs(root, n - 1)
         IN  shorter \cup { Append(q, e) : q \in { x \in shorter : Len(x) = n - 1 },
                                           e \in OuterSubs(root, SubNames[n]) }

TopRoot == <<"/","a">>
TopRepos ==
    { Repo(TopRoot, TRUE, TRUE, "ok", sh, q) : sh \in BOOLEAN, q \in SubSeqs(TopRoot, MaxSubs) }
        \cup { Repo(TopRoot, FALSE, FALSE, "ok", FALSE, << >>),
               Repo(TopRoot, TRUE, FALSE, "ok", FALSE, << >>),
               Repo(TopRoot, TRUE, TRUE, "RepoError", FALSE, << >>),
               Repo(TopRoot, TRUE, TRUE, "Exception", FALSE, << >>) }

\* the registry looks for the subrepos of a repository item
AppendSubrepos ==
    \E repo \in TopRepos, abort \in BOOLEAN :
        /\ registry = NoRegistry
        /\ registry' = [written |-> FALSE, op |-> "appendSubrepos", repo |-> repo,
                        abort |-> abort,
                        result |-> appendSubrepos(
                            SubObj(RepoItem("RepoItem", repo.root, << >>, << >>, << >>)),
                            repo, FALSE, abort)]
        /\ treeop' = TreeOp("appendSubrepos")
        /\ UNCHANGED << items, lookup, statusVars, otherVars >>

\* the discovery is forgotten
ForgetSubrepos ==
    /\ registry # NoRegistry
    /\ registry' = NoRegistry
    /\ treeop' = TreeOp("none")
    /\ UNCHANGED << items, lookup, statusVars, otherVars >>

NextSubrepos ==
    \/ AppendSubrepos
    \/ ForgetSubrepos

\* ------------------------------------------------------------------------
\* Properties of virtual paths and of the tree structure
\* ------------------------------------------------------------------------

\* the child lists and positions that hold item i
Holders(i) ==
    {pk \in Created \X (1..(MaxItems + 1)) :
        pk[2] <= Len(items[pk[1]].childs) /\ items[pk[1]].childs[pk[2]] = i}

\* C2: for every virtual path p that itempath generates for an item of the
\* tree, findbyitempath(root, p) finds an item and the itempath of that item
\* is p again.
C2_PathOfFoundIsPath ==
    lookup.kind = "itempath" =>
        /\ lookup.result.err = ""
        /\ lookup.rpath = lookup.path

\* a generated path with an index suffix and a quoted character was looked up
C2_Witness ==
    /\ lookup.kind = "itempath"
    /\ \E k \in 1..Len(lookup.path) : lookup.path[k] = "#"
    /\ \E k \in 1..Len(lookup.path) : lookup.path[k] = "%"
    /\ lookup.result.err = ""

\* C3: two distinct items of one tree never have the same virtual path, and
\* findbyitempath(root, itempath(n)) is n for every item n.
C3_PathsIdentifyItems ==
    \A a \in Flatten(RootItem) :
        /\ findbyitempath(items, RootItem, itempath(items, a)) = Found(a)
        /\ \A b \in Flatten(RootItem) :
              a # b => itempath(items, a) # itempath(items, b)

\* C4: a lookup whose last segment is '<name>#<n>' with n outside 0..k-1,
\* k the number of siblings of that name, fails with 'not found'.
C4_OutOfRangeIsNotFound ==
    (/\ lookup.kind = "indexed"
     /\ lookup.n \notin 0..(Len(NameMapEntry(items, lookup.under, lookup.q)) - 1))
        => lookup.result = NotFound

\* no item is its own ancestor; an item with a parent is held by exactly one
\* child list, at one position, and it is its parent's; an item without a
\* parent is held by none
StrictForest ==
    \A i \in Created :
        /\ i \notin Ancestors(i)
        /\ IF items[i].parent = None THEN Holders(i) = {}
           ELSE /\ Cardinality(Holders(i)) = 1
                /\ \A pk \in Holders(i) : pk[1] = items[i].parent

\* C5 as stated: after any sequence of appendChild, insertChild and
\* removeRows calls the items form a strict forest
C5_StrictForest == StrictForest

\* C1: writing a forest with dumpObject and reading the result back with
\* undumpObject yields the same forest: the same items in the same order,
\* of the same classes, with the same group name, root, shortname, basenode,
\* sharedpath and subrepo type, under the same parents.
C1_RoundTrip ==
    registry.written =>
        /\ ~registry.keyerror
        /\ Observable(registry.loaded) = Observable(registry.saved)

\* ------------------------------------------------------------------------
\* Status widget (status.py): data
\* ------------------------------------------------------------------------

\* number of working-copy files
NumFiles == 2
\* largest starting line of a hunk
MaxLine == 2

\* files are numbered; file i has the ASCII path 'f<i>', on which
\* hglib.fromunicode and hglib.tounicode change nothing
Files == 1..NumFiles
NoFile == 0
FilePath(f) == <<"f">> \o FormatNat(f)

\* sub in s, for strings
Contains(s, sub) ==
    \E k \in 0..(Len(s) - Len(sub)) : SubSeq(s, k + 1, k + Len(sub)) = sub

\* the texts typed into the filter line edit: none, one matching every
\* path, and one per file matching that file alone
FilterTexts == { << >>, <<"f">> } \cup { FormatNat(f) : f \in Files }

\* dictionaries are functions; the empty dictionary
EmptyDict == << >>
Del(d, k) == [x \in (DOMAIN d) \ {k} |-> d[x]]
Put(d, k, v) == [x \in (DOMAIN d) \cup {k} |-> IF x = k THEN v ELSE d[x]]
\* d.get(k, default)
Get(d, k, default) == IF k \in DOMAIN d THEN d[k] ELSE default

\* the hunk lists a diff of one file can give: hunks at increasing starting
\* lines, at least one (fd.changes is None, written << >>, when there is
\* none); every hunk is included when loaded
HunkLines == 1..MaxLine
RECURSIVE LinesToHunks(_, _)
LinesToHunks(lines, from) ==
    IF from > MaxLine THEN << >>
    ELSE (IF from \in lines THEN << [fromline |-> from, excluded |-> FALSE] >> ELSE << >>)
         \o LinesToHunks(lines, from + 1)
LoadedChanges == { LinesToHunks(ls, 1) : ls \in SUBSET HunkLines }

\* changes.excludecount, kept by setChunkExcluded as the number of excluded hunks
excludecount(changes) == Cardinality({k \in 1..Len(changes) : changes[k].excluded})

\* fd.setChunkExcluded(chunk, exclude) for the k-th hunk
setChunkExcluded(changes, k, exclude) == [changes EXCEPT ![k].excluded = exclude]

\* Qt.CheckState
Checked == "Checked"
Unchecked == "Unchecked"
PartiallyChecked == "PartiallyChecked"

\* the working-copy status a worker computes: file -> 'M', '?' or absent;
\* one restricted by the status filter options is one of these as well
Statuses == UNION { [fs -> {"M", "?"}] : fs \in SUBSET Files }
\* those of working copies without unknown files
ModifiedStatuses == UNION { [fs -> {"M"}] : fs \in SUBSET Files }
\* those of working copies in which at most the first file is modified
FirstFileStatuses == { EmptyDict, [f \in {1} |-> "M"] }

\* patch contexts: None, and one patch that touches file 1
NoPctx == 0
Pctxs == {0, 1}
pctxmatch(pctx, f) == pctx = NoPctx \/ f = 1

\* the state of a widget without a model, thread or display
NoModel ==
    [exists |-> FALSE, checked |-> EmptyDict, unfiltered |-> << >>, rows |-> << >>,
     partials |-> EmptyDict, shares |-> FALSE]

\* ------------------------------------------------------------------------
\* Status widget (status.py): handlers as operators
\*
\* A handler takes and gives a record P with the fields
\*   sw   the StatusWidget: partials, refthread, refreshWctxLater (timer
\*        active), savechecks, pctx, le (filter text), reselection (the
\*        current path stored by refreshWctx), fileview (the displayed path,
\*        and whether the displayed changes object sits in a dictionary only
\*        the model still holds), curidx (tv.currentIndex()), changeselect
\*   tm   the WctxModel: checked, unfiltered, rows, partials and whether
\*        partials is the very dictionary sw.partials is bound to
\*   upd  what the last call of _updatePartials met and left
\* ------------------------------------------------------------------------

NoDisplay == [path |-> NoFile, stale |-> FALSE]

\* ran: _updatePartials was called by the last handler, for the file wfile;
\* old: the entry of wfile it met, new: the hunks loaded, result: the entry it
\* left (<< >> for none); full, empty: the files whose entries it met with no
\* hunk and with every hunk excluded; entries, checked: the keys of partials
\* and the checked map it left; refreshed: updateModel built a new model in
\* the last handler, saved: the value of savechecks it met, kept: the check
\* states getChecked() gave it for the files of the new status, modified:
\* the files that status lists as modified;
\* pruned: the keys updateModel removed before
NoUpd ==
    [ran |-> FALSE, wfile |-> NoFile, old |-> << >>, new |-> << >>, result |-> << >>,
     full |-> {}, empty |-> {}, entries |-> {}, checked |-> EmptyDict, pruned |-> {},
     refreshed |-> FALSE, saved |-> TRUE, kept |-> EmptyDict, modified |-> {}]

\* an update in place of the dictionary sw.partials is bound to, which the
\* model sees when it holds the same dictionary
WithPartials(P, d) ==
    [P EXCEPT !.sw.partials = d,
              !.tm.partials = IF P.tm.shares THEN d ELSE @]

\* WctxModel.getChecked: a copy of the checked map
tmGetChecked(m) == m.checked

\* the checked paths by the checked map alone
GetCheckedByMap(P) ==
    IF ~P.tm.exists THEN {}
    ELSE { f \in DOMAIN tmGetChecked(P.tm) : P.tm.checked[f] }

\* StatusWidget.getChecked(types=None), as a set of paths
getChecked(P) ==
    IF ~P.tm.exists THEN {}
    ELSE { f \in DOMAIN tmGetChecked(P.tm) :
             IF f \in DOMAIN P.sw.partials
             THEN excludecount(P.sw.partials[f]) < Len(P.sw.partials[f])
             ELSE P.tm.checked[f] }

\* WctxModel.data(index, CheckStateRole) for the row of path f
data(m, f) ==
    IF f \in DOMAIN m.partials
    THEN (IF excludecount(m.partials[f]) = 0 THEN Checked
          ELSE IF excludecount(m.partials[f]) = Len(m.partials[f]) THEN Unchecked
          ELSE PartiallyChecked)
    ELSE (IF m.checked[f] THEN Checked ELSE Unchecked)

\* a merge that matches the hunks by their position in the list
MergeByPosition(oldhunks, changes) ==
    [k \in 1..Len(changes) |->
        IF k <= Len(oldhunks)
        THEN setChunkExcluded(changes, k, oldhunks[k].excluded)[k]
        ELSE changes[k]]

\* the merge of the old exclusion states into a new hunk list, by fromline
MergeStates(oldhunks, changes) ==
    [k \in 1..Len(changes) |->
        IF \E j \in 1..Len(oldhunks) : oldhunks[j].fromline = changes[k].fromline
        THEN LET j == CHOOSE j \in 1..Len(oldhunks) :
                            oldhunks[j].fromline = changes[k].fromline
             IN  setChunkExcluded(changes, k, oldhunks[j].excluded)[k]
        ELSE changes[k]]

ExcludeAll(changes) ==
    [k \in 1..Len(changes) |-> setChunkExcluded(changes, k, TRUE)[k]]

\* StatusWidget._updatePartials(fd) for fd of path wfile whose load gave
\* changes (<< >> for None).  The assertion of line 327 aborts the handler.
_updatePartials(P, wfile, changes) ==
    LET parts0 == P.sw.partials
        full == { f \in DOMAIN parts0 : excludecount(parts0[f]) = 0 }
        empty == { f \in DOMAIN parts0 :
                     /\ excludecount(parts0[f]) # 0
                     /\ excludecount(parts0[f]) = Len(parts0[f]) }
        checked1 == [f \in DOMAIN P.tm.checked |->
                        IF f \in full THEN TRUE
                        ELSE IF f \in empty THEN FALSE
                        ELSE P.tm.checked[f]]
        parts1 == [f \in (DOMAIN parts0) \ (full \cup empty) |-> parts0[f]]
        P1 == WithPartials([P EXCEPT !.tm.checked = checked1], parts1)
        merged == IF wfile \in DOMAIN parts1 THEN MergeStates(parts1[wfile], changes)
                  ELSE IF wfile \notin getChecked(P1) THEN ExcludeAll(changes)
                  ELSE changes
        parts2 == IF changes = << >> THEN Del(parts1, wfile)
                  ELSE Put(parts1, wfile, merged)
    IN  IF ~((DOMAIN parts0) \subseteq (DOMAIN P.tm.checked)) THEN P
        ELSE [WithPartials(P1, parts2) EXCEPT
                !.upd = [ran |-> TRUE, wfile |-> wfile,
                         old |-> Get(parts0, wfile, << >>), new |-> changes,
                         result |-> Get(parts2, wfile, << >>),
                         full |-> full, empty |-> empty,
                         entries |-> DOMAIN parts2, checked |-> checked1,
                         pruned |-> P.upd.pruned,
                         refreshed |-> P.upd.refreshed, saved |-> P.upd.saved,
                         kept |-> P.upd.kept, modified |-> P.upd.modified]]

\* StatusWidget.onCurrentChange(index): index is a path of the model's rows
\* or NoFile (an invalid index, whose file data is null)
onCurrentChange(P, index, changes) ==
    LET P1 == IF P.sw.changeselect /\ index # NoFile
              THEN _updatePartials(P, index, changes) ELSE P
    IN  [P1 EXCEPT !.sw.fileview = [path |-> index, stale |-> FALSE]]

\* StatusWidget.checkToggled(wfile, checked)
checkToggled(P, wfile, changes) ==
    IF wfile \in DOMAIN P.sw.partials
    THEN LET P1 == WithPartials(P, Del(P.sw.partials, wfile))
         IN  IF wfile = P.sw.fileview.path
             THEN onCurrentChange(P1, P.sw.curidx, changes)
             ELSE P1
    ELSE P

\* WctxModel.setData(index, value, CheckStateRole) for the row of path f
setData(P, f, value, changes) ==
    IF data(P.tm, f) = value THEN P
    ELSE IF value \notin {Checked, Unchecked} THEN P
    ELSE checkToggled([P EXCEPT !.tm.checked[f] = (value = Checked)], f, changes)

\* WctxModel.checkAll(state), from the k-th row on
RECURSIVE checkAllFrom(_, _, _, _)
checkAllFrom(P, k, state, changes) ==
    IF k > Len(P.tm.rows) THEN P
    ELSE checkAllFrom(
            checkToggled([P EXCEPT !.tm.checked[P.tm.rows[k]] = state],
                         P.tm.rows[k], changes),
            k + 1, state, changes)

checkAll(P, state, changes) == checkAllFrom(P, 1, state, changes)

\* the paths of a set in the order hg lists them
RECURSIVE SortedPaths(_)
SortedPaths(S) ==
    IF S = {} THEN << >>
    ELSE LET m == CHOOSE x \in S : \A y \in S : x <= y
         IN  << m >> \o SortedPaths(S \ {m})

\* a model that gives every file its default check state
WctxModelDefaults(wstatus, pctx, savechecks, checked0, partials) ==
    LET rows == SortedPaths({f \in DOMAIN wstatus : wstatus[f] = "M"})
                \o SortedPaths({f \in DOMAIN wstatus : wstatus[f] = "?"})
    IN  [exists |-> TRUE,
         checked |-> [f \in DOMAIN wstatus |->
                         wstatus[f] = "M" /\ pctxmatch(pctx, f)],
         unfiltered |-> rows, rows |-> rows,
         partials |-> partials, shares |-> TRUE]

\* WctxModel.__init__ with defcheck 'MAR!S', no ciexclude, every status shown:
\* the modified files, then the unknown ones
WctxModel(wstatus, pctx, savechecks, checked0, partials) ==
    LET checked == IF ~savechecks THEN EmptyDict ELSE checked0
        nchecked == [f \in DOMAIN wstatus |->
                        IF wstatus[f] = "M" THEN Get(checked, f, pctxmatch(pctx, f))
                        ELSE Get(checked, f, FALSE)]
        rows == SortedPaths({f \in DOMAIN wstatus : wstatus[f] = "M"})
                \o SortedPaths({f \in DOMAIN wstatus : wstatus[f] = "?"})
    IN  [exists |-> TRUE, checked |-> nchecked, unfiltered |-> rows, rows |-> rows,
         partials |-> partials, shares |-> TRUE]

\* a model that also hides the filtered rows from its unfiltered row list
SetFilterDropRows(m, match) ==
    [m EXCEPT !.rows = SelectSeq(m.unfiltered, LAMBDA f : Contains(FilePath(f), match)),
              !.unfiltered = SelectSeq(m.unfiltered, LAMBDA f : Contains(FilePath(f), match))]

\* WctxModel.setFilter(match)
tmSetFilter(m, match) ==
    [m EXCEPT !.rows = SelectSeq(m.unfiltered,
                                  LAMBDA f : Contains(FilePath(f), match))]

\* StatusWidget.setFilter(match); the reset of the model resets the view,
\* whose current index becomes invalid
setFilter(P, match) ==
    IF P.tm.exists
    THEN [P EXCEPT !.tm = tmSetFilter(P.tm, match), !.sw.curidx = NoFile]
    ELSE P

\* updateModel without the removal of entries from partials
UpdateModelKeepPartials(P, wstatus, first, changes) ==
    LET checked == IF P.tm.exists THEN tmGetChecked(P.tm) ELSE EmptyDict
        ntm == WctxModel(wstatus, P.sw.pctx, P.sw.savechecks, checked, P.sw.partials)
        P1 == [P EXCEPT !.tm = ntm, !.sw.savechecks = TRUE]
        curidx == IF P.sw.reselection \in Range(ntm.rows) THEN P.sw.reselection
                  ELSE IF ntm.rows # << >> THEN first ELSE NoFile
        P3 == [P1 EXCEPT !.sw.curidx = curidx]
    IN  IF curidx # NoFile THEN onCurrentChange(P3, curidx, changes) ELSE P3

\* StatusWidget.updateModel(wctx, wstatus, patchecked, amending), without
\* patterns (patchecked is empty).  first is the row on top under the sort
\* order of the view, changes what the load of the current file gives.
updateModel(P, wstatus, first, changes) ==
    LET checked == IF P.tm.exists THEN tmGetChecked(P.tm) ELSE EmptyDict
        ntm == WctxModel(wstatus, P.sw.pctx, P.sw.savechecks, checked, P.sw.partials)
        P1 == [P EXCEPT !.tm = ntm, !.sw.savechecks = TRUE]
        P2 == [WithPartials(P1, [f \in (DOMAIN P1.sw.partials) \cap (DOMAIN ntm.checked)
                                    |-> P1.sw.partials[f]])
                 EXCEPT !.upd.pruned = (DOMAIN P1.sw.partials) \ (DOMAIN ntm.checked),
                        !.upd.refreshed = TRUE,
                        !.upd.saved = P.sw.savechecks,
                        !.upd.kept = [f \in (DOMAIN checked) \cap (DOMAIN wstatus)
                                         |-> checked[f]],
                        !.upd.modified = {f \in DOMAIN wstatus : wstatus[f] = "M"}]
        curidx == IF P.sw.reselection \in Range(ntm.rows) THEN P.sw.reselection
                  ELSE IF ntm.rows # << >> THEN first ELSE NoFile
        P3 == [P2 EXCEPT !.sw.curidx = curidx]
    IN  IF curidx # NoFile THEN onCurrentChange(P3, curidx, changes) ELSE P3

\* worker threads: QThread objects by number
MaxThreads == 2
ThreadIds == 1..MaxThreads
NoThread == 0
NoWorker == [state |-> "none"]
Live(ths) == { t \in ThreadIds : ths[t].state # "none" }

\* refreshWctx without the test of self.refthread
RefreshWctxUnguarded(P, t) ==
    [P EXCEPT !.sw.refreshWctxLater = FALSE,
              !.sw.fileview = NoDisplay,
              !.sw.reselection = IF P.tm.exists /\ Len(P.tm.rows) > 0
                                 THEN P.sw.curidx ELSE NoFile,
              !.sw.refthread = t,
              !.threads[t] = [state |-> "running"]]

\* StatusWidget.refreshWctx(); t is the thread object it creates
refreshWctx(P, t) ==
    IF P.sw.refthread # NoThread
    THEN [P EXCEPT !.sw.refreshWctxLater = TRUE]
    ELSE [P EXCEPT !.sw.refreshWctxLater = FALSE,
                   !.sw.fileview = NoDisplay,
                   !.sw.reselection = IF P.tm.exists /\ Len(P.tm.rows) > 0
                                      THEN P.sw.curidx ELSE NoFile,
                   !.sw.refthread = t,
                   !.threads[t] = [state |-> "running"]]

\* StatusThread.run() has returned.  What it left in wctx and wstatus is read
\* by reloadComplete alone, where the model draws it.
run(worker) == [worker EXCEPT !.state = "finished"]

\* reloadComplete that also stops the timer refreshWctxLater
ReloadCompleteStopTimer(P, ok, wstatus, merging, first, changes) ==
    LET r == P.sw.refthread
        P0 == [P EXCEPT !.threads[r] = run(@), !.upd = NoUpd]
        P1 == IF ok THEN updateModel(P0, wstatus, first, changes) ELSE P0
        P2 == [P1 EXCEPT !.sw.refthread = NoThread, !.sw.refreshWctxLater = FALSE]
        P3 == IF merging
              THEN [P2 EXCEPT !.sw.partials = EmptyDict,
                              !.tm.shares = FALSE,
                              !.sw.fileview.stale =
                                  IF P2.tm.shares
                                  THEN P2.sw.fileview.path \in DOMAIN P2.tm.partials
                                  ELSE P2.sw.fileview.stale]
              ELSE P2
    IN  IF P3.sw.le # << >> THEN setFilter(P3, P3.sw.le) ELSE P3

\* StatusWidget.reloadComplete(), the slot of the finished signal: wait()
\* returns once the thread self.refthread has run.  ok: the thread set wctx
\* (it reported no error), wstatus: the status it computed; merging: the
\* working copy has two parents.
reloadComplete(P, ok, wstatus, merging, first, changes) ==
    LET r == P.sw.refthread
        P0 == [P EXCEPT !.threads[r] = run(@), !.upd = NoUpd]
        P1 == IF ok THEN updateModel(P0, wstatus, first, changes) ELSE P0
        P2 == [P1 EXCEPT !.sw.refthread = NoThread]
        P3 == IF merging
              THEN [P2 EXCEPT !.sw.partials = EmptyDict,
                              !.tm.shares = FALSE,
                              !.sw.fileview.stale =
                                  IF P2.tm.shares
                                  THEN P2.sw.fileview.path \in DOMAIN P2.tm.partials
                                  ELSE P2.sw.fileview.stale]
              ELSE P2
    IN  IF P3.sw.le # << >> THEN setFilter(P3, P3.sw.le) ELSE P3

\* ------------------------------------------------------------------------
\* Status widget: actions
\* ------------------------------------------------------------------------

\* StatusWidget.__init__; change selection of the file view is switched on
\* or off by the widget that embeds the status widget
InitStatus(changeselects) ==
    /\ \E c \in changeselects :
         sw = [partials |-> EmptyDict, refthread |-> NoThread,
               refreshWctxLater |-> FALSE, savechecks |-> TRUE, pctx |-> NoPctx,
               le |-> << >>, reselection |-> NoFile, fileview |-> NoDisplay,
               curidx |-> NoFile, changeselect |-> c]
    /\ tm = NoModel
    /\ upd = NoUpd
    /\ threads = [t \in ThreadIds |-> NoWorker]

\* the state a handler starts from
Now == [sw |-> sw, tm |-> tm, upd |-> NoUpd, threads |-> threads]

\* the state a handler leaves
Becomes(Q) ==
    /\ sw' = Q.sw
    /\ tm' = Q.tm
    /\ upd' = Q.upd
    /\ threads' = Q.threads
    /\ UNCHANGED << treeVars, otherVars >>

\* thread objects are numbered in the order of their creation
NextThread(t) ==
    /\ threads[t].state = "none"
    /\ \A u \in ThreadIds : u < t => threads[u].state # "none"

\* a refresh is requested: the refresh button, refreshNeeded of the file
\* actions, setStatusFilter, clearPattern, the owner of the widget
RefreshWctx ==
    \E t \in ThreadIds :
        /\ NextThread(t)
        /\ Becomes(refreshWctx(Now, t))

\* the single-shot timer refreshWctxLater fires
TimerTimeout ==
    \E t \in ThreadIds :
        /\ sw.refreshWctxLater
        /\ NextThread(t)
        /\ Becomes(refreshWctx([Now EXCEPT !.sw.refreshWctxLater = FALSE], t))

\* a worker thread runs to its end
WorkerRun ==
    \E t \in ThreadIds :
        /\ threads[t].state = "running"
        /\ threads' = [threads EXCEPT ![t] = run(@)]
        /\ UNCHANGED << sw, tm, upd, treeVars, otherVars >>

\* the finished signal of thread t is delivered to reloadComplete; without
\* self.refthread the slot fails at its first statement
ReloadComplete(statuses, mergings) ==
    \E t \in ThreadIds, merging \in mergings, first \in Files :
        /\ threads[t].state = "finished"
        /\ \E ok \in BOOLEAN, wstatus \in statuses,
              changes \in IF sw.changeselect THEN LoadedChanges ELSE { << >> } :
             LET Q == IF sw.refthread = NoThread THEN Now
                      ELSE reloadComplete(Now, ok, wstatus, merging, first, changes)
             IN  /\ IF Q.tm.exists /\ Q.tm.unfiltered # << >>
                    THEN first \in Range(Q.tm.unfiltered) ELSE first = 1
                 /\ Becomes([Q EXCEPT !.threads[t] = NoWorker])

\* the user makes another row the current one
SelectRow ==
    \E f \in Files, changes \in IF sw.changeselect THEN LoadedChanges ELSE { << >> } :
        /\ tm.exists
        /\ f \in Range(tm.rows)
        /\ f # sw.curidx
        /\ Becomes(onCurrentChange([Now EXCEPT !.sw.curidx = f], f, changes))

\* the user toggles the k-th hunk of the displayed file in the file view,
\* which calls setChunkExcluded on the changes object it displays
ToggleChunk ==
    \E k \in 1..MaxLine :
        LET f == sw.fileview.path
            inw == f \in DOMAIN sw.partials
            inm == f \in DOMAIN tm.partials /\ (IF tm.shares THEN inw ELSE sw.fileview.stale)
            flip(d) == [d EXCEPT ![f] = setChunkExcluded(@, k, ~@[k].excluded)]
        IN  /\ sw.changeselect
            /\ f # NoFile
            /\ inw \/ inm
            /\ k <= Len(IF inw THEN sw.partials[f] ELSE tm.partials[f])
            /\ Becomes([Now EXCEPT !.sw.partials = IF inw THEN flip(@) ELSE @,
                                   !.tm.partials = IF inm THEN flip(@) ELSE @])

\* the user sets the check box of a row
SetData ==
    \E f \in Files, value \in {Checked, Unchecked},
       changes \in IF sw.changeselect THEN LoadedChanges ELSE { << >> } :
        /\ tm.exists
        /\ f \in Range(tm.rows)
        /\ Becomes(setData(Now, f, value, changes))

\* the check-all/none button, which is disabled while a refresh is in flight
CheckAll ==
    \E state \in BOOLEAN, changes \in IF sw.changeselect THEN LoadedChanges ELSE { << >> } :
        /\ tm.exists
        /\ sw.refthread = NoThread
        /\ Becomes(checkAll(Now, state, changes))

\* the user edits the filter text
SetFilter ==
    \E match \in FilterTexts :
        /\ match # sw.le
        /\ Becomes(setFilter([Now EXCEPT !.sw.le = match], match))

\* setPatchContext(pctx)
SetPatchContext ==
    \E pctx \in Pctxs :
        Becomes([Now EXCEPT !.sw.savechecks = IF pctx # sw.pctx THEN FALSE ELSE @,
                            !.sw.pctx = pctx])

\* the refresh cycle: requests, the deferring timer, the worker, its result
NextRefresh ==
    \/ RefreshWctx
    \/ TimerTimeout
    \/ WorkerRun
    \/ ReloadComplete(Statuses, {FALSE})
    \/ SetFilter

\* whole-file check states across refreshes, filters and patch contexts
NextChecks ==
    \/ RefreshWctx
    \/ WorkerRun
    \/ ReloadComplete(Statuses, {FALSE})
    \/ SelectRow
    \/ SetData
    \/ CheckAll
    \/ SetFilter
    \/ SetPatchContext

\* hunk selections across refreshes of a working copy of modified files
NextPartials ==
    \/ RefreshWctx
    \/ WorkerRun
    \/ ReloadComplete(ModifiedStatuses, {FALSE})
    \/ SelectRow
    \/ ToggleChunk
    \/ SetData
    \/ CheckAll

\* hunk selections of one file across refreshes with and without a merge in
\* progress; the only row is made the current one by updateModel
NextMerge ==
    \/ RefreshWctx
    \/ WorkerRun
    \/ ReloadComplete(FirstFileStatuses, BOOLEAN)
    \/ ToggleChunk
    \/ SetData
    \/ CheckAll

\* ------------------------------------------------------------------------
\* Configuration objects (wconfig.py)
\* ------------------------------------------------------------------------

\* A sortdict, like a Python dict, keeps its <<key, value>> pairs in the order
\* in which the keys were first set.
SdHas(d, key) == \E k \in 1..Len(d) : d[k][1] = key
SdGet(d, key) == d[CHOOSE k \in 1..Len(d) : d[k][1] = key][2]
SdKeys(d) == [k \in 1..Len(d) |-> d[k][1]]

\* _wsortdict._setdict: a new key is appended, a known one keeps its place
_setdict(d, key, val) ==
    IF ~SdHas(d, key) THEN Append(d, << key, val >>)
    ELSE [k \in 1..Len(d) |-> IF d[k][1] = key THEN << key, val >> ELSE d[k]]

\* _wsortdict.__delitem__, the KeyError of a missing key caught by the caller
SdDel(d, key) ==
    LET keep(kv) == kv[1] # key
    IN  SelectSeq(d, keep)

\* equality of two dicts: the same keys with the same values, in any order
SdEq(d, e) == Range(d) = Range(e)

\* the sections of the configuration the panels edit
SectionNames == {"tortoisehg-tools", "tortoisehg", "hooks"}

\* _wconfig.set(section, item, value)
IniSet(ini, section, item, value) == [ini EXCEPT ![section] = _setdict(@, item, value)]

\* del ini[section][key] inside try / except KeyError
IniDel(ini, section, key) == [ini EXCEPT ![section] = SdDel(@, key)]

NoSettings == [open |-> FALSE]

\* ------------------------------------------------------------------------
\* Custom tools panel (customtools.py)
\* ------------------------------------------------------------------------

\* tools the panel may hold at a time, and items a tool list may show
MaxTools == 2
MaxListLen == 3

\* A string is a sequence of characters; a literal of the program that no
\* operation takes apart ('command', 'istrue', '------') is one element of it.
Whitespace == {" ", "\t"}

RECURSIVE Strip(_)
\* s.strip()
Strip(s) ==
    IF Len(s) = 0 THEN s
    ELSE IF s[1] \in Whitespace THEN Strip(Tail(s))
    ELSE IF s[Len(s)] \in Whitespace THEN Strip(SubSeq(s, 1, Len(s) - 1))
    ELSE s

RECURSIVE SplitWs(_)
\* s.split(): the runs of characters other than whitespace
SplitWs(s) ==
    LET t == Strip(s)
        hits == {i \in 1..Len(t) : t[i] \in Whitespace}
    IN  IF Len(t) = 0 THEN << >>
        ELSE IF hits = {} THEN << t >>
        ELSE LET i == CHOOSE k \in hits : \A j \in hits : k <= j
             IN  << SubSeq(t, 1, i - 1) >> \o SplitWs(SubSeq(t, i + 1, Len(t)))

\* key.split('.', 1)
SplitFirstDot(key) ==
    LET hits == {i \in 1..Len(key) : key[i] = "."}
    IN  IF hits = {} THEN << key >>
        ELSE LET i == CHOOSE k \in hits : \A j \in hits : k <= j
             IN  << SubSeq(key, 1, i - 1), SubSeq(key, i + 1, Len(key)) >>

\* '%s.%s' % (name, field)
DotKey(name, field) == name \o << "." >> \o field

\* the fields of a tool, as sorted() orders them
FieldNames == << <<"command">>, <<"enable">>, <<"icon">>, <<"label">>, <<"location">>,
                 <<"showoutput">>, <<"tooltip">>, <<"workingdir">> >>
\* fieldnames of ToolsFrame.applyChanges
fieldnames == << <<"command">>, <<"workingdir">>, <<"label">>, <<"tooltip">>,
                 <<"icon">>, <<"location">>, <<"enable">>, <<"showoutput">> >>
\* sorted(tools[name])
SortedFields(cfg) ==
    LET present(f) == f \in DOMAIN cfg
    IN  SelectSeq(FieldNames, present)

\* the values True and False of Python, and str() of a value
PyTrue == <<"bool:True">>
PyFalse == <<"bool:False">>
Str(v) == IF v = PyTrue THEN <<"True">> ELSE IF v = PyFalse THEN <<"False">> ELSE v

\* the one GUI location modelled, and its key in the section tortoisehg
Location == <<"workbench.custom-toolbar">>
SEPARATOR == <<"------">>
NoLocation == << >>

RECURSIVE ToolsOfItems(_)
\* hglib.tortoisehgtools: the tools defined by the items of tortoisehg-tools
ToolsOfItems(sec) ==
    IF Len(sec) = 0 THEN << >>
    ELSE LET tools == ToolsOfItems(SubSeq(sec, 1, Len(sec) - 1))
             parts == SplitFirstDot(sec[Len(sec)][1])
             toolname == parts[1]
             field == parts[2]
             raw == sec[Len(sec)][2]
             value == IF field = <<"showoutput">>
                      THEN (IF raw = <<"False">> THEN PyFalse ELSE PyTrue)
                      ELSE raw
             cfg == IF SdHas(tools, toolname) THEN SdGet(tools, toolname) ELSE EmptyDict
         IN  _setdict(tools, toolname, Put(cfg, field, value))

\* hglib.tortoisehgtools(ini, selectedlocation): the tools and the names to
\* show, the tools in their order when no location is selected
tortoisehgtools(ini, selectedlocation) ==
    LET tools == ToolsOfItems(ini["tortoisehg-tools"])
        guidef == IF SdHas(ini["tortoisehg"], selectedlocation)
                  THEN SplitWs(SdGet(ini["tortoisehg"], selectedlocation)) ELSE << >>
        known(name) == name = <<"|">> \/ SdHas(tools, name)
        selected(kv) == \E k \in 1..Len(guidef) : guidef[k] = kv[1]
    IN  IF selectedlocation = NoLocation
        THEN [tools |-> tools, guidef |-> SdKeys(tools)]
        ELSE [tools |-> SelectSeq(tools, selected), guidef |-> SelectSeq(guidef, known)]

RECURSIVE _guidef2toollist(_)
\* ToolListBox._guidef2toollist
_guidef2toollist(guidef) ==
    IF Len(guidef) = 0 THEN << >>
    ELSE LET toollist == _guidef2toollist(SubSeq(guidef, 1, Len(guidef) - 1))
             name == guidef[Len(guidef)]
         IN  IF name = <<"|">>
             THEN (IF Len(toollist) > 0 /\ toollist[Len(toollist)] = SEPARATOR
                   THEN toollist ELSE Append(toollist, SEPARATOR))
             ELSE Append(toollist, name)

\* ToolListBox._toollist2guidef: a separator is left out when the last
\* element of the list that is being converted is '|'
_toollist2guidef(toollist) ==
    LET lastisbar == Len(toollist) > 0 /\ toollist[Len(toollist)] = <<"|">>
        kept(uname) == ~(uname = SEPARATOR /\ lastisbar)
        conv == SelectSeq(toollist, kept)
    IN  [k \in 1..Len(conv) |-> IF conv[k] = SEPARATOR THEN <<"|">> ELSE conv[k]]

\* a list widget: the texts of its items, the current row (-1: none) and the
\* value it was loaded with
NoList == [values |-> << >>, row |-> 0 - 1, curvalue |-> << >>]

\* ToolListBox.addOrInsertItem
addOrInsertItem(L, text) ==
    IF L.row < 0
    THEN [L EXCEPT !.values = Append(@, text), !.row = Len(L.values)]
    ELSE [L EXCEPT !.values = SubSeq(@, 1, L.row + 1) \o << text >>
                                  \o SubSeq(@, L.row + 2, Len(@)),
                   !.row = L.row + 1]

RECURSIVE AddItems(_, _)
\* for toolname in toollist: self.addOrInsertItem(toolname, icon=icon)
AddItems(L, toollist) ==
    IF Len(toollist) = 0 THEN L
    ELSE AddItems(addOrInsertItem(L, toollist[1]), Tail(toollist))

\* QListWidget.takeItem(row): the current row stays on the item that follows
\* the one taken, or moves to the last
takeItem(L, row) ==
    LET vs == SubSeq(L.values, 1, row) \o SubSeq(L.values, row + 2, Len(L.values))
        cur == IF L.row > row THEN L.row - 1 ELSE L.row
    IN  [L EXCEPT !.values = vs,
                  !.row = IF cur >= Len(vs) THEN Len(vs) - 1 ELSE cur]

\* ToolListBox.deleteTool(row=None)
listDeleteTool(L) == IF L.row >= 0 THEN takeItem(L, L.row) ELSE L

\* ToolListBox.value and ToolListBox.isDirty
listValue(L) == _toollist2guidef(L.values)
listIsDirty(L) == listValue(L) # L.curvalue

\* ToolListBox.refresh
listRefresh(ini, location) ==
    LET guidef == tortoisehgtools(ini, location).guidef
    IN  AddItems([NoList EXCEPT !.curvalue = guidef], _guidef2toollist(guidef))

\* ToolListBox.removeInvalid
removeInvalid(L, validtools) ==
    LET valid(toolname) ==
            \/ Len(toolname) = 0
            \/ toolname[1] \in {"|", "-"}
            \/ SdHas(validtools, toolname)
        validguidef == SelectSeq(listValue(L), valid)
    IN  AddItems([L EXCEPT !.values = << >>, !.row = 0 - 1], _guidef2toollist(validguidef))

\* the value 'enable' a tool may have in the dialog
EnableValues == { <<"istrue">>, <<"iswd">>, <<"isrev">>, <<"isctx">>, <<"fixed">>,
                  <<"applied">>, <<"qgoto">> }

\* CustomToolConfigDialog.value() of a dialog opened on toolconfig in which the
\* user has typed nametext and commandtext and left the other fields alone
toolDialogValue(toolconfig, nametext, commandtext) ==
    LET enable == Get(toolconfig, <<"enable">>, <<"all">>)
    IN  [toolname |-> Strip(nametext),
         toolconfig |->
            [f \in {<<"label">>, <<"command">>, <<"workingdir">>, <<"tooltip">>,
                    <<"icon">>, <<"enable">>, <<"showoutput">>} |->
                CASE f = <<"command">> -> commandtext
                  [] f = <<"enable">> -> IF enable \in EnableValues THEN enable ELSE <<"istrue">>
                  [] f = <<"showoutput">> -> Str(Get(toolconfig, f, PyFalse))
                  [] OTHER -> Get(toolconfig, f, << >>)]]

\* CustomToolConfigDialog.validateForm: '' when the form is accepted
toolValidateForm(v) ==
    IF Len(v.toolname) = 0 THEN "You must set a tool name."
    ELSE IF \E k \in 1..Len(v.toolname) : v.toolname[k] = " "
         THEN "The tool name cannot have any spaces in it."
    ELSE IF Len(v.toolconfig[<<"command">>]) = 0 THEN "You must set a command to run."
    ELSE ""

\* ToolsFrame.__init__ and ToolsFrame.refresh: the tools of the configuration
\* and the two lists; __init__ ends with selectlocation(0)
ToolsFrame(ini) ==
    LET tools == tortoisehgtools(ini, NoLocation).tools
    IN  [tortoisehgtools |-> tools,
         curvalue |-> tools,
         globaltoollist |-> listRefresh(ini, NoLocation),
         widget |-> removeInvalid(listRefresh(ini, Location), tools)]

frameRefresh(ini) ==
    LET tools == tortoisehgtools(ini, NoLocation).tools
    IN  [tortoisehgtools |-> tools,
         curvalue |-> tools,
         globaltoollist |-> listRefresh(ini, NoLocation),
         widget |-> listRefresh(ini, Location)]

\* ToolsFrame.newTool, the dialog closed with v accepted
newTool(F, v) ==
    [F EXCEPT !.globaltoollist = addOrInsertItem(@, v.toolname),
              !.tortoisehgtools = _setdict(@, v.toolname, v.toolconfig)]

\* ToolsFrame.editTool(row), likewise
editTool(F, row, v) ==
    [F EXCEPT !.globaltoollist =
                    [@ EXCEPT !.values = [@ EXCEPT ![row + 1] = v.toolname], !.row = row],
              !.tortoisehgtools = _setdict(@, v.toolname, v.toolconfig)]

\* ToolsFrame.deleteCurrentTool
deleteCurrentTool(F) ==
    LET row == F.globaltoollist.row
        itemtext == F.globaltoollist.values[row + 1]
        tools == SdDel(F.tortoisehgtools, itemtext)
    IN  IF row < 0 THEN F
        ELSE [F EXCEPT !.globaltoollist = takeItem(@, row),
                       !.tortoisehgtools = tools,
                       !.widget = removeInvalid(@, tools)]

\* ToolsFrame.addToList
addToList(F) ==
    LET gtl == F.globaltoollist
        row == IF gtl.row < 0 THEN 0 ELSE gtl.row
    IN  IF row >= Len(gtl.values) THEN F
        ELSE [F EXCEPT !.widget = addOrInsertItem(@, gtl.values[row + 1])]

\* ToolsFrame.isDirty
toolsIsDirty(F) ==
    \/ listIsDirty(F.widget)
    \/ listIsDirty(F.globaltoollist)
    \/ ~SdEq(F.tortoisehgtools, F.curvalue)

RECURSIVE DelFields(_, _, _)
\* for field in fieldnames: updateIniValue(section, '%s.%s' % (name, field), None)
DelFields(ini, name, fields) ==
    IF Len(fields) = 0 THEN ini
    ELSE DelFields(IniDel(ini, "tortoisehg-tools", DotKey(name, fields[1])), name, Tail(fields))

RECURSIVE DelTools(_, _)
\* for name in self.curvalue: ...
DelTools(ini, names) ==
    IF Len(names) = 0 THEN ini
    ELSE DelTools(DelFields(ini, names[1], fieldnames), Tail(names))

\* updateIniValue(section, key, newvalue) with a value: the key is deleted and
\* set again, which puts it last
updateIniValue(ini, section, key, newvalue) ==
    IniSet(IniDel(ini, section, key), section, key, newvalue)

RECURSIVE SetFields(_, _, _, _)
\* for field in sorted(tools[name]): ... if value != '': updateIniValue(...)
SetFields(ini, name, cfg, fields) ==
    IF Len(fields) = 0 THEN ini
    ELSE LET value == cfg[fields[1]]
             next == IF value # << >>
                     THEN updateIniValue(ini, "tortoisehg-tools",
                                         DotKey(name, fields[1]), Str(value))
                     ELSE ini
         IN  SetFields(next, name, cfg, Tail(fields))

RECURSIVE SetTools(_, _)
\* for name in tools: if name[0] in '|-': continue ...
SetTools(ini, tools) ==
    IF Len(tools) = 0 THEN ini
    ELSE LET name == tools[1][1]
             next == IF name[1] \in {"|", "-"} THEN ini
                     ELSE SetFields(ini, name, tools[1][2], SortedFields(tools[1][2]))
         IN  SetTools(next, Tail(tools))

\* ToolsFrame.applyChanges(ini): the configuration it leaves and what it returns
toolsApplyChanges(F, ini) ==
    IF ~toolsIsDirty(F) THEN [ini |-> ini, changed |-> FALSE]
    ELSE LET ini1 == DelTools(ini, SdKeys(F.curvalue))
             ini2 == SetTools(ini1, F.tortoisehgtools)
             ini3 == IF listIsDirty(F.widget)
                     THEN updateIniValue(ini2, "tortoisehg", Location,
                                         Join(listValue(F.widget), " "))
                     ELSE ini2
         IN  [ini |-> ini3, changed |-> TRUE]

\* ------------------------------------------------------------------------
\* Hooks panel (customtools.py)
\* ------------------------------------------------------------------------

\* rows the hook table may hold at a time
MaxHooks == 2

\* HookConfigDialog._hooktypes, the first two of them
_hooktypes == << <<"changegroup">>, <<"commit">> >>

\* the types and names of hooks in play, as sorted() and the table order them
SortedHookTypes == << <<"changegroup">>, <<"commit">>, <<"pre-commit">> >>
SortedHookNames == << << >>, <<"a">>, <<"a", " ", "b">>, <<"a", ".", "b">> >>
Sorted(keys, order) ==
    LET present(k) == k \in keys
    IN  SelectSeq(order, present)

\* b'%s.%s' % (hooktype, keyname), or the bare hooktype for the name ''
hookKey(hooktype, keyname) ==
    IF Len(keyname) > 0 THEN DotKey(hooktype, keyname) ELSE hooktype

RECURSIVE gethooksOf(_)
\* HooksFrame.gethooks: hooktype -> name -> command, from the items of the
\* section hooks
gethooksOf(sec) ==
    IF Len(sec) = 0 THEN << >>
    ELSE LET hooks == gethooksOf(SubSeq(sec, 1, Len(sec) - 1))
             keyparts == SplitFirstDot(sec[Len(sec)][1])
             hooktype == keyparts[1]
             name == IF Len(keyparts) = 1 THEN << >> ELSE keyparts[2]
             inner == IF SdHas(hooks, hooktype) THEN SdGet(hooks, hooktype) ELSE EmptyDict
         IN  _setdict(hooks, hooktype, Put(inner, name, sec[Len(sec)][2]))
gethooks(ini) == gethooksOf(ini["hooks"])

RECURSIVE hooksValueOf(_)
\* HooksFrame.value: the same mapping, from the rows of the table
hooksValueOf(rows) ==
    IF Len(rows) = 0 THEN << >>
    ELSE LET hooks == hooksValueOf(SubSeq(rows, 1, Len(rows) - 1))
             r == rows[Len(rows)]
             inner == IF SdHas(hooks, r.hooktype) THEN SdGet(hooks, r.hooktype) ELSE EmptyDict
         IN  _setdict(hooks, r.hooktype, Put(inner, r.hookname, r.command))

\* hooktable.sortByColumn(0, AscendingOrder): the table sorts its rows by the
\* first column, rows of one type staying in their order
SortRows(rows) ==
    LET types == Sorted({rows[k].hooktype : k \in 1..Len(rows)}, SortedHookTypes)
        oftype(t) == LET is(r) == r.hooktype = t IN SelectSeq(rows, is)
        F[k \in 0..Len(types)] == IF k = 0 THEN << >> ELSE F[k - 1] \o oftype(types[k])
    IN  F[Len(types)]

\* the rows HooksFrame.refresh makes of hooks
RowsOfHooks(hooks) ==
    LET types == Sorted({hooks[k][1] : k \in 1..Len(hooks)}, SortedHookTypes)
        rowsof(t) == LET names == Sorted(DOMAIN SdGet(hooks, t), SortedHookNames)
                     IN  [k \in 1..Len(names) |->
                            [hooktype |-> t, hookname |-> names[k],
                             command |-> SdGet(hooks, t)[names[k]]]]
        F[k \in 0..Len(types)] == IF k = 0 THEN << >> ELSE F[k - 1] \o rowsof(types[k])
    IN  F[Len(types)]

\* the frame is created empty (setValue({})) and filled by refresh
HooksFrame == [rows |-> << >>, curvalue |-> << >>]
hooksRefresh(ini) == [rows |-> RowsOfHooks(gethooks(ini)), curvalue |-> gethooks(ini)]

\* HooksFrame.isDirty
hooksIsDirty(H) == ~SdEq(hooksValueOf(H.rows), H.curvalue)

\* HookConfigDialog.value() with the hook type chosen and the texts typed
hookDialogValue(hooktype, nametext, commandtext) ==
    [hooktype |-> hooktype, hookname |-> Strip(nametext), command |-> Strip(commandtext)]

\* HookConfigDialog.validateForm: '' when the form is accepted
hookValidateForm(v) ==
    IF v.hooktype \notin Range(_hooktypes) THEN "You must set a valid hook type."
    ELSE IF \E k \in 1..Len(v.hookname) : v.hookname[k] \in Whitespace \cup {"="}
         THEN "The hook name cannot contain any spaces, tabs or '=' characters."
    ELSE IF Len(v.command) = 0 THEN "You must set a command to run."
    ELSE ""

\* HooksFrame.findHooks(hooktype, hookname) and deleteHook of the rows found
DeleteMatching(rows, hooktype, hookname) ==
    LET other(r) == ~(r.hooktype = hooktype /\ r.hookname = hookname)
    IN  SelectSeq(rows, other)

\* HooksFrame.newHook, the dialog closed with v accepted; replace: the answer
\* to 'Replace existing hook?'
newHook(H, v, replace) ==
    LET hooks == hooksValueOf(H.rows)
        exists == /\ SdHas(hooks, v.hooktype)
                  /\ v.hookname \in DOMAIN SdGet(hooks, v.hooktype)
        added(rows) == SortRows(Append(rows, v))
    IN  IF ~exists THEN [H EXCEPT !.rows = added(@)]
        ELSE IF SdGet(hooks, v.hooktype)[v.hookname] = v.command THEN H
        ELSE IF ~replace THEN H
        ELSE [H EXCEPT !.rows = added(DeleteMatching(@, v.hooktype, v.hookname))]

\* HooksFrame.editHook(r), the dialog closed with v accepted
editHook(H, r, v) == [H EXCEPT !.rows = SortRows([@ EXCEPT ![r + 1] = v])]

\* a double click on the name cell (c = 1) or the command cell (c = 2) of row
\* r: editHook(r, c) returns False without a dialog, the cell, which is left
\* editable, is edited in place and takes the text typed
editCell(H, r, c, text) ==
    IF c = 1 THEN [H EXCEPT !.rows[r + 1].hookname = text]
    ELSE [H EXCEPT !.rows[r + 1].command = text]

\* HooksFrame.deleteHook(row)
deleteHook(H, row) ==
    [H EXCEPT !.rows = SubSeq(@, 1, row) \o SubSeq(@, row + 2, Len(@))]

RECURSIVE DelHookKeys(_, _, _)
\* for keyname in hooks[hooktype]: del ini[section][keyname]
DelHookKeys(ini, hooktype, names) ==
    IF Len(names) = 0 THEN ini
    ELSE DelHookKeys(IniDel(ini, "hooks", hookKey(hooktype, names[1])), hooktype, Tail(names))

RECURSIVE DelHooks(_, _)
DelHooks(ini, hooks) ==
    IF Len(hooks) = 0 THEN ini
    ELSE DelHooks(DelHookKeys(ini, hooks[1][1], Sorted(DOMAIN hooks[1][2], SortedHookNames)),
                  Tail(hooks))

RECURSIVE SetHookKeys(_, _, _, _)
\* for field in sorted(hooks[hooktype]): ... if value: ini.set(...)
SetHookKeys(ini, hooktype, inner, names) ==
    IF Len(names) = 0 THEN ini
    ELSE LET value == inner[names[1]]
             next == IF Len(value) > 0
                     THEN IniSet(ini, "hooks", hookKey(hooktype, names[1]), value)
                     ELSE ini
         IN  SetHookKeys(next, hooktype, inner, Tail(names))

RECURSIVE SetHooks(_, _)
SetHooks(ini, hooks) ==
    IF Len(hooks) = 0 THEN ini
    ELSE SetHooks(SetHookKeys(ini, hooks[1][1], hooks[1][2],
                              Sorted(DOMAIN hooks[1][2], SortedHookNames)),
                  Tail(hooks))

\* HooksFrame.applyChanges(ini): the configuration it leaves and what it returns
hooksApplyChanges(H, ini) ==
    IF ~hooksIsDirty(H) THEN [ini |-> ini, changed |-> FALSE]
    ELSE [ini |-> SetHooks(DelHooks(ini, H.curvalue), hooksValueOf(H.rows)),
          changed |-> TRUE]

\* ------------------------------------------------------------------------
\* Settings panels: state and actions
\* ------------------------------------------------------------------------

\* what the user may type as a tool name, a hook name and a command
ToolNameTexts == { << >>, <<" ", "b">>, <<"a", " ", "b">>, <<"a", "\t", "b">>, <<"-", "x">> }
HookNameTexts == { << >>, <<" ", "a">>, <<"a", "\t", "b">>, <<"a", "=">> }
CommandTexts == { << >>, <<" ">>, <<"c">>, <<"d">> }
\* what the user may type into a cell of the hook table
CellTexts == { << >>, <<"a", " ", "b">> }

\* configurations the panels may be opened on
Section(name, sec) == [x \in SectionNames |-> IF x = name THEN sec ELSE << >>]
EmptyIni == Section("hooks", << >>)
OneTool == << << DotKey(<<"a">>, <<"command">>), <<"c">> >> >>
TwoTools ==
    << << DotKey(<<"a">>, <<"command">>), <<"c">> >>,
       << DotKey(<<"a">>, <<"showoutput">>), <<"True">> >>,
       << DotKey(<<"b">>, <<"command">>), <<"d">> >> >>
ToolIni(sec, loc) ==
    [EmptyIni EXCEPT !["tortoisehg-tools"] = sec,
                     !["tortoisehg"] = IF Len(loc) = 0 THEN << >>
                                       ELSE << << Location, loc >> >>]
ToolInis ==
    { ToolIni(<< >>, << >>),
      ToolIni(OneTool, <<"a">>),
      ToolIni(TwoTools, <<"a", " ", "|", " ", "b">>),
      ToolIni(TwoTools, <<"a", " ", "|", " ", "|", " ", "b">>) }
HookSections ==
    { << >>,
      << << <<"commit">>, <<"c">> >> >>,
      << << DotKey(<<"commit">>, <<"a">>), <<"c">> >>,
         << DotKey(<<"pre-commit">>, <<"a", ".", "b">>), <<"d">> >> >> }
HookInis == { [EmptyIni EXCEPT !["hooks"] = sec] : sec \in HookSections }

NoLast == [op |-> "none"]

\* edits made and times the settings are applied while the dialog is open
MaxEdits == 2
MaxApplies == 2

\* the settings dialog opened on ini: both panels built and refreshed
Settings(ini) ==
    [open |-> TRUE, ini |-> ini, tf |-> ToolsFrame(ini), hf |-> hooksRefresh(ini),
     edited |-> FALSE, renamed |-> {}, edits |-> 0, applies |-> 0, last |-> NoLast]

InitSettings(inis) == \E ini \in inis : ct = Settings(ini)

\* an edit made in the tools panel
ToolsEdit(F, gone, made) ==
    /\ Len(F.tortoisehgtools) <= MaxTools
    /\ Len(F.globaltoollist.values) <= MaxListLen
    /\ Len(F.widget.values) <= MaxListLen
    /\ ct.edits < MaxEdits
    /\ ct' = [ct EXCEPT !.tf = F, !.edited = TRUE, !.edits = @ + 1,
                        !.renamed = (@ \cup gone) \ made, !.last = NoLast]
    /\ UNCHANGED << treeVars, statusVars, ig, ws, appVars >>

\* 'New Tool ...': the dialog is filled in and accepted by okClicked
NewTool ==
    \E nametext \in ToolNameTexts, commandtext \in CommandTexts :
        LET v == toolDialogValue(EmptyDict, nametext, commandtext)
        IN  /\ toolValidateForm(v) = ""
            /\ ToolsEdit(newTool(ct.tf, v), {}, {v.toolname})

\* 'Edit Tool ...' or a double click on row: the dialog shows the tool of
\* that row and is accepted with a name and a command
EditTool ==
    \E row \in 0..(MaxListLen - 1), nametext \in ToolNameTexts, commandtext \in CommandTexts :
        /\ row < Len(ct.tf.globaltoollist.values)
        /\ LET toolname == ct.tf.globaltoollist.values[row + 1]
           IN  /\ SdHas(ct.tf.tortoisehgtools, toolname)
               /\ LET v == toolDialogValue(SdGet(ct.tf.tortoisehgtools, toolname),
                                           nametext, commandtext)
                  IN  /\ toolValidateForm(v) = ""
                      /\ ToolsEdit(editTool(ct.tf, row, v),
                                   IF v.toolname # toolname THEN {toolname} ELSE {},
                                   {v.toolname})

\* 'Delete Tool'
DeleteCurrentTool ==
    /\ ct.tf.globaltoollist.row >= 0
    /\ ToolsEdit(deleteCurrentTool(ct.tf), {}, {})

\* '<< Add to list <<', '<< Add separator' and 'Delete from list'
AddToList == ToolsEdit(addToList(ct.tf), {}, {}) /\ ct'.tf # ct.tf
AddSeparator == ToolsEdit([ct.tf EXCEPT !.widget = addOrInsertItem(@, SEPARATOR)], {}, {})
DeleteFromList ==
    /\ ct.tf.widget.row >= 0
    /\ ToolsEdit([ct.tf EXCEPT !.widget = listDeleteTool(@)], {}, {})

\* the user makes a row of the list of all tools the current one
SelectTool ==
    \E row \in 0..(MaxListLen - 1) :
        /\ row < Len(ct.tf.globaltoollist.values)
        /\ row # ct.tf.globaltoollist.row
        /\ ct' = [ct EXCEPT !.tf.globaltoollist.row = row, !.last = NoLast]
        /\ UNCHANGED << treeVars, statusVars, ig, ws, appVars >>

\* the settings are applied: ToolsFrame.applyChanges(ini)
ToolsApply ==
    LET r == toolsApplyChanges(ct.tf, ct.ini)
    IN  /\ ct.applies < MaxApplies
        /\ ct' = [ct EXCEPT !.ini = r.ini, !.applies = @ + 1,
                            !.last = [op |-> "tools", changed |-> r.changed,
                                      before |-> ct.ini]]
        /\ UNCHANGED << treeVars, statusVars, ig, ws, appVars >>

\* the panel is loaded again from the configuration: ToolsFrame.refresh()
ToolsRefresh ==
    /\ ct.last # NoLast
    /\ ct' = [ct EXCEPT !.tf = frameRefresh(ct.ini), !.edited = FALSE, !.renamed = {},
                        !.last = [op |-> "toolsrefresh"]]
    /\ UNCHANGED << treeVars, statusVars, ig, ws, appVars >>

NextTools ==
    \/ NewTool
    \/ EditTool
    \/ DeleteCurrentTool
    \/ AddToList
    \/ AddSeparator
    \/ DeleteFromList
    \/ SelectTool
    \/ ToolsApply
    \/ ToolsRefresh

\* an edit made in the hooks panel
HooksEdit(H) ==
    /\ Len(H.rows) <= MaxHooks
    /\ ct.edits < MaxEdits
    /\ ct' = [ct EXCEPT !.hf = H, !.edited = TRUE, !.edits = @ + 1, !.last = NoLast]
    /\ UNCHANGED << treeVars, statusVars, ig, ws, appVars >>

\* 'New hook': the dialog is filled in and accepted by okClicked
NewHook ==
    \E k \in 1..Len(_hooktypes), nametext \in HookNameTexts, commandtext \in CommandTexts,
       replace \in BOOLEAN :
        LET v == hookDialogValue(_hooktypes[k], nametext, commandtext)
        IN  /\ hookValidateForm(v) = ""
            /\ HooksEdit(newHook(ct.hf, v, replace))
            /\ ct'.hf # ct.hf

\* 'Edit hook' or a double click on the first cell of row r: the dialog shows
\* the row, its combo box on the row's type or, if it has no such entry, on
\* the first; it is accepted with a type, a name and a command
EditHook ==
    \E r \in 0..(MaxHooks - 1), k \in 1..Len(_hooktypes), nametext \in HookNameTexts,
       commandtext \in CommandTexts :
        LET v == hookDialogValue(_hooktypes[k], nametext, commandtext)
        IN  /\ r < Len(ct.hf.rows)
            /\ hookValidateForm(v) = ""
            /\ HooksEdit(editHook(ct.hf, r, v))

\* a cell of the name or the command column is edited in place
EditCell ==
    \E r \in 0..(MaxHooks - 1), c \in 1..2, text \in CellTexts :
        /\ r < Len(ct.hf.rows)
        /\ HooksEdit(editCell(ct.hf, r, c, text))

\* 'Delete hook'
DeleteHook ==
    \E r \in 0..(MaxHooks - 1) :
        /\ r < Len(ct.hf.rows)
        /\ HooksEdit(deleteHook(ct.hf, r))

\* the settings are applied: HooksFrame.applyChanges(ini)
HooksApply ==
    LET r == hooksApplyChanges(ct.hf, ct.ini)
    IN  /\ ct.applies < MaxApplies
        /\ ct' = [ct EXCEPT !.ini = r.ini, !.applies = @ + 1,
                            !.last = [op |-> "hooks", changed |-> r.changed,
                                      before |-> ct.ini]]
        /\ UNCHANGED << treeVars, statusVars, ig, ws, appVars >>

\* the panel is loaded again from the configuration: HooksFrame.refresh()
HooksRefresh ==
    /\ ct.last # NoLast
    /\ ct.last.op = "hooks"
    /\ ct' = [ct EXCEPT !.hf = hooksRefresh(ct.ini), !.edited = FALSE,
                        !.last = [op |-> "hooksrefresh", changed |-> ct.last.changed,
                                  rows |-> ct.hf.rows]]
    /\ UNCHANGED << treeVars, statusVars, ig, ws, appVars >>

NextHooks ==
    \/ NewHook
    \/ EditHook
    \/ EditCell
    \/ DeleteHook
    \/ HooksApply
    \/ HooksRefresh

\* ------------------------------------------------------------------------
\* Ignore filter dialog (hgignore.py)
\* ------------------------------------------------------------------------

\* lines the ignore file may have, and changes made to it while the dialog is
\* open
MaxIgnoreLines == 5
MaxIgnoreOps == 2

NoDialog == [open |-> FALSE]

\* The ignore file is a sequence of bytes; 'syntax:', 'glob' and 'regexp' are
\* one element each.
LF == << "\n" >>
CRLF == << "\r", "\n" >>
BytesWhitespace == {" ", "\t", "\r", "\n"}

RECURSIVE readlines(_)
\* fp.readlines() of a file opened 'rb': a line ends after each '\n'
readlines(b) ==
    IF Len(b) = 0 THEN << >>
    ELSE IF \E k \in 1..Len(b) : b[k] = "\n"
         THEN LET k == CHOOSE k \in 1..Len(b) : b[k] = "\n" /\ \A m \in 1..(k - 1) : b[m] # "\n"
              IN  << SubSeq(b, 1, k) >> \o readlines(SubSeq(b, k + 1, Len(b)))
         ELSE << b >>

RECURSIVE bstrip(_)
\* line.strip() of bytes
bstrip(s) ==
    IF Len(s) = 0 THEN s
    ELSE IF s[1] \in BytesWhitespace THEN bstrip(Tail(s))
    ELSE IF s[Len(s)] \in BytesWhitespace THEN bstrip(SubSeq(s, 1, Len(s) - 1))
    ELSE s

\* line.endswith(b'\r\n')
endswithCRLF(line) ==
    Len(line) >= 2 /\ line[Len(line) - 1] = "\r" /\ line[Len(line)] = "\n"

\* line.startswith(b'syntax:')
startswithSyntax(line) == Len(line) > 0 /\ line[1] = "syntax:"

RECURSIVE eoljoin(_, _)
\* eol.join(lines)
eoljoin(lines, eol) ==
    IF Len(lines) = 0 THEN << >>
    ELSE IF Len(lines) = 1 THEN lines[1]
    ELSE lines[1] \o eol \o eoljoin(Tail(lines), eol)

\* HgignoreDialog.refresh: the file is read; doseoln is taken from its first
\* line, or from the platform when there is none (the file is missing or empty)
ignoreRefresh(G) ==
    LET l == readlines(G.file)
    IN  [G EXCEPT !.read = l,
                  !.doseoln = IF Len(l) > 0 THEN endswithCRLF(l[1]) ELSE G.nt,
                  !.ignorelines = [k \in 1..Len(l) |-> bstrip(l[k])]]

\* a writeIgnoreFile that ends every line with '\n'
IgnoreOutLF(G) == eoljoin(G.ignorelines, LF) \o LF

\* HgignoreDialog.writeIgnoreFile: what is written
ignoreOut(G) ==
    LET eol == IF G.doseoln THEN CRLF ELSE LF
    IN  eoljoin(G.ignorelines, eol) \o eol

\* HgignoreDialog.writeIgnoreFile; ok: the file could be written
writeIgnoreFile(G, ok) == IF ok THEN [G EXCEPT !.file = ignoreOut(G)] ELSE G

\* an insertFilters that looks for the glob header whatever the syntax
SyntaxHeaderGlob(isregexp) == <<"syntax:", " ", "glob">>

\* the header line of a syntax
syntaxHeader(isregexp) ==
    IF isregexp THEN <<"syntax:", " ", "regexp">> ELSE <<"syntax:", " ", "glob">>

\* an insertFilters that inserts behind the next 'syntax:' line, not before it
InsertedLinesBehindNext(lines, pats, isregexp) ==
    LET h == syntaxHeader(isregexp)
    IN  IF \E k \in 1..Len(lines) : lines[k] = h
        THEN LET l == CHOOSE k \in 1..Len(lines) :
                          lines[k] = h /\ \A m \in 1..(k - 1) : lines[m] # h
                 later == { k \in (l + 1)..Len(lines) : startswithSyntax(lines[k]) }
             IN  IF later # {}
                 THEN LET n == CHOOSE k \in later : \A m \in later : k <= m
                      IN  SubSeq(lines, 1, n) \o Reverse(pats)
                              \o SubSeq(lines, n + 1, Len(lines))
                 ELSE lines \o pats
        ELSE Append(lines, h) \o pats

\* HgignoreDialog.insertFilters, the lines it leaves in ignorelines
insertedLines(lines, pats, isregexp) ==
    LET h == syntaxHeader(isregexp)
    IN  IF \E k \in 1..Len(lines) : lines[k] = h
        THEN LET l == CHOOSE k \in 1..Len(lines) :
                          lines[k] = h /\ \A m \in 1..(k - 1) : lines[m] # h
                 later == { k \in (l + 1)..Len(lines) : startswithSyntax(lines[k]) }
             IN  IF later # {}
                 THEN LET n == CHOOSE k \in later : \A m \in later : k <= m
                      IN  SubSeq(lines, 1, n - 1) \o Reverse(pats)
                              \o SubSeq(lines, n, Len(lines))
                 ELSE lines \o pats
        ELSE Append(lines, h) \o pats

\* HgignoreDialog.insertFilters(pats, isregexp)
insertFilters(G, pats, isregexp, ok) ==
    LET G1 == [G EXCEPT !.ignorelines = insertedLines(@, pats, isregexp)]
        G2 == writeIgnoreFile(G1, ok)
    IN  [ignoreRefresh(G2) EXCEPT
            !.last = [op |-> "insert", pats |-> pats, isregexp |-> isregexp,
                      before |-> G.ignorelines, lines |-> G1.ignorelines,
                      read |-> G.read, ok |-> ok, out |-> ignoreOut(G1)]]

RECURSIVE popRows(_, _)
\* for idx in sorted(selectedIndexes, reverse=True): self.ignorelines.pop(idx.row())
popRows(lines, rows) ==
    IF rows = {} THEN lines
    ELSE LET r == CHOOSE r \in rows : \A q \in rows : q <= r
         IN  popRows(SubSeq(lines, 1, r) \o SubSeq(lines, r + 2, Len(lines)), rows \ {r})

\* HgignoreDialog.eventFilter: Backspace or Del on the selected rows
deleteRows(G, rows, ok) ==
    LET G1 == [G EXCEPT !.ignorelines = popRows(@, rows)]
        G2 == writeIgnoreFile(G1, ok)
    IN  [ignoreRefresh(G2) EXCEPT
            !.last = [op |-> "delete", pats |-> << >>, isregexp |-> FALSE,
                      before |-> G.ignorelines, lines |-> G1.ignorelines,
                      read |-> G.read, ok |-> ok, out |-> ignoreOut(G1)]]

\* what the user may type as a filter, and the unknown files of the repository
IgnoreTexts == { << >>, <<" ", "p">>, <<"(">>, <<"syntax:", " ", "regexp">> }
UnknownFiles == { <<"f">> }
MenuPatterns == { << <<"f">>, <<"g">> >> }

\* match.match(root, b'', [], [test]) and re.compile(test) raise no error
validFilter(newfilter, isregexp) == ~(isregexp /\ newfilter = <<"(">>)

\* contents the ignore file may have when the dialog is opened or after it
\* was edited by hand
IgnoreFiles ==
    { << >>,
      <<"syntax:", " ", "glob", "\n", "p", "\n">>,
      <<"syntax:", " ", "glob", "\r", "\n", "p", "\n", "syntax:", " ", "regexp", "\n">>,
      <<"p", "\n", "syntax:", "glob", "\n", " ", "p">> }

NoOp == [op |-> "none"]

\* the dialog is opened on a file: __init__ and the refresh it schedules
InitIgnore ==
    \E f \in IgnoreFiles, nt \in BOOLEAN :
        ig = ignoreRefresh([open |-> TRUE, nt |-> nt, file |-> f, read |-> << >>,
                            doseoln |-> FALSE, ignorelines |-> << >>, ops |-> 0,
                            last |-> NoOp])

IgnoreBecomes(G) ==
    /\ Len(G.ignorelines) <= MaxIgnoreLines
    /\ ig.ops < MaxIgnoreOps
    /\ ig' = [G EXCEPT !.ops = @ + 1]
    /\ UNCHANGED << treeVars, statusVars, ct, ws, appVars >>

\* 'Add' or Return in the filter line: HgignoreDialog.addEntry
AddEntry ==
    \E text \in IgnoreTexts, isregexp \in BOOLEAN, ok \in BOOLEAN :
        LET newfilter == bstrip(text)
        IN  IF newfilter = << >> \/ ~validFilter(newfilter, isregexp)
            THEN IgnoreBecomes([ig EXCEPT !.last = NoOp])
            ELSE IgnoreBecomes(insertFilters(ig, << newfilter >>, isregexp, ok))

\* a double click on an unknown file: HgignoreDialog.unknownDoubleClicked
UnknownDoubleClicked ==
    \E f \in UnknownFiles, ok \in BOOLEAN :
        IgnoreBecomes(insertFilters(ig, << f >>, FALSE, ok))

\* an entry of the context menu of the unknown files is triggered
MenuTriggered ==
    \E pats \in MenuPatterns, ok \in BOOLEAN :
        IgnoreBecomes(insertFilters(ig, pats, FALSE, ok))

\* Backspace or Del in the list of filters
DeleteSelected ==
    \E rows \in SUBSET (0..(MaxIgnoreLines - 1)), ok \in BOOLEAN :
        /\ rows # {}
        /\ \A r \in rows : r < Len(ig.ignorelines)
        /\ IgnoreBecomes(deleteRows(ig, rows, ok))

\* 'Edit File': the file is edited and saved in the editor, then read again
EditClicked ==
    \E f \in IgnoreFiles :
        IgnoreBecomes([ignoreRefresh([ig EXCEPT !.file = f]) EXCEPT !.last = NoOp])

NextIgnore ==
    \/ AddEntry
    \/ UnknownDoubleClicked
    \/ MenuTriggered
    \/ DeleteSelected
    \/ EditClicked

\* ------------------------------------------------------------------------
\* Workbench server and its client (qtapp.py)
\* ------------------------------------------------------------------------

\* requests sent to the server one after the other
MaxRequests == 2

NoSocket == [open |-> FALSE]

\* the byte b'\0', and no revset given
NUL == "\\0"
NoRevset == << "None" >>

\* b'\0'.join([root, revset]) if revset, else root
requestData(root, revset) ==
    IF revset # NoRevset /\ Len(revset) > 0 THEN root \o << NUL >> \o revset ELSE root

\* data.split(b'\0', 1)
splitNul(bytes) ==
    IF \E k \in 1..Len(bytes) : bytes[k] = NUL
    THEN LET k == CHOOSE k \in 1..Len(bytes) : bytes[k] = NUL /\ \A m \in 1..(k - 1) : bytes[m] # NUL
         IN  << SubSeq(bytes, 1, k - 1), SubSeq(bytes, k + 1, Len(bytes)) >>
    ELSE << bytes >>

\* what _handleNewConnection shows for the bytes it has read: nothing for
\* b'' and b'[echo]', else the repository and the revset filter, if any
NothingShown == << >>
shownFor(bytes) ==
    IF bytes = << >> \/ bytes = << "[echo]" >> THEN NothingShown
    ELSE LET args == splitNul(bytes)
         IN  IF Len(args) > 1
             THEN [uroot |-> args[1],
                   urevset |-> IF Len(args[2]) > 0 THEN args[2] ELSE NoRevset]
             ELSE [uroot |-> args[1], urevset |-> NoRevset]

\* a variant of _handleNewConnection that answers with the root path alone
AnswerRootOnly(bytes) == IF bytes = << >> THEN bytes ELSE splitNul(bytes)[1]

\* what _handleNewConnection writes back for the bytes it has read
answerFor(bytes) == bytes

\* roots and revsets a client may send
Roots == { <<"r">>, <<"r", "s">>, <<"[echo]">> }
Revsets == { NoRevset, << >>, <<"v">>, <<"v", NUL, "w">> }

\* a server listens; no client has connected yet
IdleSocket(n) ==
    [open |-> TRUE, pc |-> "idle", root |-> << >>, revset |-> NoRevset, data |-> << >>,
     connected |-> FALSE, reply |-> << >>, result |-> FALSE,
     c2s |-> << >>, s2c |-> << >>, pending |-> FALSE, handled |-> FALSE,
     read |-> << >>, written |-> << >>, shown |-> NothingShown, n |-> n]

InitSocket == ws = IdleSocket(0)

SocketBecomes(W) ==
    /\ ws' = W
    /\ UNCHANGED << treeVars, statusVars, ct, ig, appVars >>

\* connectToExistingWorkbench(root, revset) up to waitForConnected: the server
\* is reached, or it is not and the function returns False
ClientConnect ==
    \E root \in Roots, revset \in Revsets, connected \in BOOLEAN :
        /\ ws.pc = "idle"
        /\ SocketBecomes([ws EXCEPT !.root = root, !.revset = revset,
                                    !.data = requestData(root, revset),
                                    !.connected = connected,
                                    !.pending = connected,
                                    !.pc = IF connected THEN "connected" ELSE "done"])

\* socket.write(QByteArray(data)); socket.flush()
ClientWrite ==
    /\ ws.pc = "connected"
    /\ SocketBecomes([ws EXCEPT !.c2s = @ \o ws.data, !.pc = "sent"])

\* QtRunner._handleNewConnection: waitForReadyRead returns with the bytes that
\* have arrived, none if it timed out; they are read, acted upon and answered
HandleNewConnection ==
    \E k \in 0..Len(ws.c2s) :
        LET bytes == SubSeq(ws.c2s, 1, k)
        IN  /\ ws.pending
            /\ SocketBecomes([ws EXCEPT !.pending = FALSE, !.handled = TRUE,
                                        !.c2s = SubSeq(@, k + 1, Len(@)),
                                        !.read = bytes,
                                        !.shown = shownFor(bytes),
                                        !.written = answerFor(bytes),
                                        !.s2c = @ \o answerFor(bytes)])

\* connectToExistingWorkbench after waitForReadyRead: the bytes of the reply
\* that have arrived, none if it timed out, are read and compared
ClientRead ==
    \E k \in 0..Len(ws.s2c) :
        LET reply == SubSeq(ws.s2c, 1, k)
        IN  /\ ws.pc = "sent"
            /\ SocketBecomes([ws EXCEPT !.reply = reply, !.result = (ws.data = reply),
                                        !.s2c = SubSeq(@, k + 1, Len(@)),
                                        !.pc = "done"])

\* the client process is gone; the next one may connect
NextClient ==
    /\ ws.pc = "done"
    /\ ~ws.pending
    /\ ws.n + 1 < MaxRequests
    /\ SocketBecomes(IdleSocket(ws.n + 1))

NextSocket ==
    \/ ClientConnect
    \/ ClientWrite
    \/ HandleNewConnection
    \/ ClientRead
    \/ NextClient

\* ------------------------------------------------------------------------
\* The exception catcher of the application (qtapp.py)
\* ------------------------------------------------------------------------

\* the most reports of unhandled exceptions in one run, and release() calls
MaxReports == 3
MaxReleases == 2

NoRunner == [constructed |-> FALSE]
NoWriters == [open |-> FALSE]

\* values of sys.excepthook: the interpreter's own hook, a hook set by the
\* embedding application, and the bound method ExceptionCatcher.ehook
ExceptHooks == {"sys.__excepthook__", "apphook"}
\* values signal.signal(SIGINT, ...) can return: a Python callable,
\* signal.SIG_IGN (1), signal.SIG_DFL (0), and None for a handler that was
\* not installed from Python
IntHandlers == {"default_int_handler", "SIG_IGN", "SIG_DFL", "None"}
\* values signal.set_wakeup_fd can return: -1 for none, or a descriptor
NoFd == 0 - 1
WakeupFds == {NoFd, 5}
\* the two ends of the pipe made by os.pipe() in _initWakeup
PipeRfd == 8
PipeWfd == 9

\* bool(v) of a hook or handler value: SIG_DFL is the integer 0
Truthy(v) == v \notin {"SIG_DFL", "None", "unset"}

\* the hooks of the process
SysHooks(R) == [excepthook |-> R.excepthook, inthandler |-> R.inthandler, wakeupfd |-> R.wakeupfd]

\* QtRunner before __call__: no catcher; the process as it was started
Runner(excepthook, inthandler, wakeupfd, posix, tty, traceback) ==
    [constructed |-> TRUE,
     excepthook |-> excepthook, inthandler |-> inthandler, wakeupfd |-> wakeupfd,
     fds |-> {}, posix |-> posix, tty |-> tty, traceback |-> traceback,
     catcher |-> "none", before |-> << >>,
     origexcepthook |-> "unset", originthandler |-> "unset", origwakeupfd |-> NoFd,
     wakeupsn |-> "none", wakeuptimer |-> 0,
     pending |-> << >>, errors |-> << >>, timer |-> FALSE,
     dialog |-> << >>, shown |-> << >>, printed |-> << >>, exited |-> FALSE,
     reports |-> 0, releases |-> 0,
     server |-> "none", listener |-> "nobody", workbench |-> << >>, opens |-> 0,
     last |-> [op |-> "none"]]

\* ExceptionCatcher._initWakeup
_initWakeup(R) ==
    IF R.posix
    THEN [R EXCEPT !.fds = @ \cup {PipeRfd, PipeWfd}, !.wakeupsn = "enabled",
                   !.origwakeupfd = R.wakeupfd, !.wakeupfd = PipeWfd]
    ELSE [R EXCEPT !.wakeuptimer = IF R.tty THEN 1 ELSE 0]

\* ExceptionCatcher._releaseWakeup
_releaseWakeup(R) ==
    IF R.posix
    THEN [R EXCEPT !.wakeupsn = "disabled", !.wakeupfd = R.origwakeupfd,
                   !.origwakeupfd = NoFd, !.fds = @ \ {PipeRfd, R.wakeupfd}]
    ELSE [R EXCEPT !.wakeuptimer = 0]

\* ExceptionCatcher.__init__
catcherInit(R) ==
    LET R1 == [R EXCEPT !.catcher = "installed", !.before = SysHooks(R), !.errors = << >>]
        R2 == IF ~R.traceback
              THEN [R1 EXCEPT !.origexcepthook = R.excepthook, !.excepthook = "ehook"]
              ELSE R1
        R3 == [R2 EXCEPT !.originthandler = R.inthandler, !.inthandler = "_inthandler"]
    IN  _initWakeup(R3)

\* ExceptionCatcher.release
release(R) ==
    LET R1 == IF Truthy(R.origexcepthook)
              THEN [R EXCEPT !.excepthook = R.origexcepthook, !.origexcepthook = "unset"]
              ELSE R
        R2 == IF Truthy(R1.originthandler)
              THEN _releaseWakeup([R1 EXCEPT !.inthandler = R1.originthandler,
                                             !.originthandler = "unset"])
              ELSE R1
    IN  [R2 EXCEPT !.catcher = "released"]

\* exception classes: the keys of _recoverableexc, a subclass of error.Abort
\* that is not a key, and a class outside the VCS library
ExcTypes == {"RepoLookupError", "RevlogError", "ParseError", "ConfigError", "Abort",
             "LockUnavailable", "InputError", "KeyError"}

RecoverableTypes ==
    {"RepoLookupError", "RevlogError", "ParseError", "ConfigError", "Abort", "LockUnavailable"}

\* _recoverableexc[etype]
_recoverableexc(etype) ==
    CASE etype \in {"RepoLookupError", "RevlogError"} -> <<"Try refreshing your repository.">>
      [] etype = "ParseError" -> <<"Error string \"%(arg0)s\" at %(arg1)s, edit your config">>
      [] etype = "ConfigError" -> <<"Configuration Error: \"%(arg0)s\", fix your config">>
      [] etype = "Abort" -> <<"Operation aborted: %(arg0)s.">>
      [] etype = "LockUnavailable" -> <<"Repository is locked">>

HintSuffix == <<"hint: %(arg1)s">>

\* an unhandled exception: its class, and whether evalue.hint (of an Abort)
\* or evalue.location (of a ConfigError or ParseError) is set; n numbers
\* the reports of the run
Report(n, etype, extra) == [n |-> n, etype |-> etype, extra |-> extra]

TypesOf(errors) == { errors[k].etype : k \in 1..Len(errors) }

\* _showexceptiondialog with the message box for mixed batches of known classes
ShowDialogOfFirst(errors) ==
    LET etype == errors[1].etype
        extra == errors[1].extra
    IN  IF etype \in RecoverableTypes
        THEN [kind |-> "ExceptionMsgBox", errstr |-> _recoverableexc(etype),
              values |-> <<"exception_str">>, error |-> errors]
        ELSE [kind |-> "BugReport", errstr |-> << >>, values |-> << >>, error |-> errors]

\* ExceptionCatcher._showexceptiondialog: the dialog it creates and executes;
\* error is opts['error'], the tracebacks of all queued reports
_showexceptiondialog(errors) ==
    LET etype == errors[1].etype
        extra == errors[1].extra
    IN  IF Cardinality(TypesOf(errors)) = 1 /\ etype \in RecoverableTypes
        THEN IF etype = "Abort" /\ extra
             THEN [kind |-> "ExceptionMsgBox", errstr |-> _recoverableexc(etype) \o HintSuffix,
                   values |-> <<"exception_str", "hint">>, error |-> errors]
             ELSE IF etype = "ConfigError" /\ extra
             THEN [kind |-> "ExceptionMsgBox", errstr |-> _recoverableexc("ParseError"),
                   values |-> <<"exception_str", "location">>, error |-> errors]
             ELSE IF etype = "ParseError" /\ extra
             THEN [kind |-> "ExceptionMsgBox", errstr |-> _recoverableexc(etype),
                   values |-> <<"exception_str", "location">>, error |-> errors]
             ELSE [kind |-> "ExceptionMsgBox", errstr |-> _recoverableexc(etype),
                   values |-> <<"exception_str">>, error |-> errors]
        ELSE [kind |-> "BugReport", errstr |-> << >>, values |-> << >>, error |-> errors]

\* ExceptionCatcher.ehook: emits _exceptionOccured, which is connected queued
ehook(R, etype, extra) ==
    [R EXCEPT !.reports = @ + 1, !.pending = Append(@, Report(R.reports + 1, etype, extra))]

\* ExceptionCatcher.putexception, run by the event loop of the GUI thread
putexception(R) ==
    [R EXCEPT !.pending = Tail(@),
              !.timer = IF R.errors = << >> THEN TRUE ELSE @,
              !.errors = Append(@, R.pending[1])]

\* ExceptionCatcher.excepthandler up to dlg.exec(), which runs an event loop
\* of its own until the dialog is closed; when creating the dialog raises,
\* the application is told to exit and the reports are printed
excepthandler(R, ok) ==
    IF ok
    THEN [R EXCEPT !.timer = FALSE, !.dialog = << _showexceptiondialog(R.errors) >>]
    ELSE [R EXCEPT !.timer = FALSE, !.exited = TRUE, !.printed = @ \o R.errors,
                   !.errors = << >>]

\* the rest of excepthandler, after dlg.exec() has returned: finally
dialogClosed(R) ==
    [R EXCEPT !.shown = Append(@, R.dialog[1]), !.dialog = << >>, !.errors = << >>,
              !.last = [op |-> "closed", dialog |-> R.dialog[1], errors |-> R.errors]]

\* the most openRepoInWorkbench calls in one run
MaxOpens == 2

\* QtRunner.createWorkbenchServer: _server is the QLocalServer object from
\* now on, whether listen() got the name or another process holds it
createWorkbenchServer(R) ==
    IF R.listener = "nobody"
    THEN [R EXCEPT !.server = "listening", !.listener = "own"]
    ELSE [R EXCEPT !.server = "failed"]

\* connectToExistingWorkbench as called by a QtRunner, by the process that
\* listens under the server name: nobody refuses the connection; another
\* workbench loops the request back unless it times out; the caller's own
\* server accepts the connection but is served by the thread that waits
connectToExistingWorkbench(R, uroot, answers) ==
    CASE R.listener = "nobody" -> [connected |-> FALSE, toself |-> FALSE, result |-> FALSE]
      [] R.listener = "other" -> [connected |-> TRUE, toself |-> FALSE, result |-> answers]
      [] R.listener = "own" -> [connected |-> TRUE, toself |-> TRUE, result |-> FALSE]

NotCalled == [connected |-> FALSE, toself |-> FALSE, result |-> FALSE]

\* QtRunner.showRepoInWorkbench
showRepoInWorkbench(R, uroot) == [R EXCEPT !.workbench = Append(@, uroot)]

\* openRepoInWorkbench without the test of self._server
OpenRepoWithoutServerTest(R, uroot, singlewb, answers) ==
    LET c == IF singlewb THEN connectToExistingWorkbench(R, uroot, answers) ELSE NotCalled
        R1 == IF c.result THEN R ELSE showRepoInWorkbench(R, uroot)
    IN  [R1 EXCEPT !.opens = @ + 1,
                   !.last = [op |-> "open", uroot |-> uroot, singlewb |-> singlewb,
                             server |-> R.server, conn |-> c]]

\* QtRunner.openRepoInWorkbench
openRepoInWorkbench(R, uroot, singlewb, answers) ==
    LET c == IF singlewb /\ R.server = "none"
             THEN connectToExistingWorkbench(R, uroot, answers)
             ELSE NotCalled
        R1 == IF c.result THEN R ELSE showRepoInWorkbench(R, uroot)
    IN  [R1 EXCEPT !.opens = @ + 1,
                   !.last = [op |-> "open", uroot |-> uroot, singlewb |-> singlewb,
                             server |-> R.server, conn |-> c]]

\* QtRunner._quitGracefully: the server is closed, the object is kept
_quitGracefully(R) ==
    IF R.server # "none"
    THEN [R EXCEPT !.server = "closed",
                   !.listener = IF R.listener = "own" THEN "nobody" ELSE @]
    ELSE R

\* the reports made in the runs explored: class and hint or location
ReportKinds ==
    { <<"Abort", TRUE>>, <<"Abort", FALSE>>, <<"ConfigError", TRUE>>,
      <<"RepoLookupError", FALSE>>, <<"InputError", FALSE>>, <<"KeyError", FALSE>> }

\* the processes a QtRunner is started in
Runners ==
    { Runner(h, i, f, os[1], os[2], tb) :
        h \in ExceptHooks, i \in IntHandlers, f \in WakeupFds,
        os \in { <<TRUE, TRUE>>, <<FALSE, TRUE>>, <<FALSE, FALSE>> }, tb \in BOOLEAN }

\* a process started from a terminal on a POSIX system, Python's own hooks
PlainRunner == Runner("sys.__excepthook__", "default_int_handler", NoFd, TRUE, TRUE, FALSE)

RunnerBecomes(R) ==
    /\ qr' = R
    /\ UNCHANGED << treeVars, statusVars, ct, ig, ws, dk, wc >>

\* QtRunner.__call__ creates the catcher
CatcherInit ==
    /\ qr.catcher = "none"
    /\ RunnerBecomes(catcherInit(qr))

\* QtRunner.__call__ releases the catcher when the event loop has returned;
\* release() may be called again
Release ==
    /\ qr.catcher # "none" /\ qr.dialog = << >>
    /\ qr.releases < MaxReleases
    /\ RunnerBecomes([release(qr) EXCEPT !.releases = @ + 1,
                         !.last = [op |-> "release", was |-> SysHooks(qr)]])

\* an exception reaches sys.excepthook in some thread
Ehook ==
    /\ qr.excepthook = "ehook" /\ ~qr.exited
    /\ qr.reports < MaxReports
    /\ \E k \in ReportKinds : RunnerBecomes(ehook(qr, k[1], k[2]))

\* the event loop (the application's, or the one of an open dialog) delivers
\* a queued _exceptionOccured signal
PutException ==
    /\ qr.catcher = "installed" /\ ~qr.exited
    /\ qr.pending # << >>
    /\ RunnerBecomes(putexception(qr))

\* the single-shot timer set by putexception fires
Excepthandler ==
    /\ qr.catcher = "installed" /\ ~qr.exited
    /\ qr.timer
    /\ \E ok \in BOOLEAN : RunnerBecomes(excepthandler(qr, ok))

\* the user closes the dialog
DialogClosed ==
    /\ qr.dialog # << >>
    /\ RunnerBecomes(dialogClosed(qr))

CreateWorkbenchServer ==
    /\ qr.server = "none"
    /\ RunnerBecomes(createWorkbenchServer(qr))

OpenRepoInWorkbench ==
    /\ qr.opens < MaxOpens
    /\ \E uroot \in Roots, singlewb \in BOOLEAN, answers \in BOOLEAN :
          RunnerBecomes(openRepoInWorkbench(qr, uroot, singlewb, answers))

\* the last window was closed
QuitGracefully ==
    /\ qr.server \in {"listening", "failed"}
    /\ RunnerBecomes(_quitGracefully(qr))

\* another process starts to listen under the server name, or stops
OtherWorkbench ==
    /\ qr.listener # "own"
    /\ RunnerBecomes([qr EXCEPT !.listener = IF @ = "nobody" THEN "other" ELSE "nobody"])

NextWorkbench ==
    \/ CreateWorkbenchServer
    \/ OpenRepoInWorkbench
    \/ QuitGracefully
    \/ OtherWorkbench

NextCatcher ==
    \/ CatcherInit
    \/ Release

NextErrors ==
    \/ CatcherInit
    \/ Ehook
    \/ PutException
    \/ Excepthandler
    \/ DialogClosed
    \/ Release

\* ------------------------------------------------------------------------
\* The dialog keeper (qtlib.py)
\* ------------------------------------------------------------------------

\* the most dialogs created in one run
MaxDialogs == 3
DialogIds == 1..MaxDialogs
\* the keys genkey makes of the arguments
DialogKeys == {"k1", "k2"}

NoKeeper == [constructed |-> FALSE]

\* DialogKeeper.__init__; dlgs: the dialogs created, "none" before, "shown",
\* "closed" (hidden, its deletion deferred to the event loop) or "deleted"
DialogKeeper ==
    [constructed |-> TRUE, keytodlgs |-> EmptyDict,
     dlgs |-> [d \in DialogIds |-> "none"], keyof |-> [d \in DialogIds |-> "k1"],
     last |-> [op |-> "none"]]

\* the dialog that createdlg returns next
NewDialog(K) == CHOOSE d \in DialogIds : K.dlgs[d] = "none" /\ \A e \in 1..(d - 1) : K.dlgs[e] # "none"

\* DialogKeeper._populatedlg
_populatedlg(K, key) ==
    LET dlg == NewDialog(K)
    IN  [keeper |-> [K EXCEPT !.keytodlgs = Put(@, key, Append(Get(@, key, << >>), dlg)),
                              !.dlgs[dlg] = "created", !.keyof[dlg] = key],
         dlg |-> dlg]

\* _preparedlg that takes the first dialog of the key
PreparedlgFirst(K, key) ==
    IF key \in DOMAIN K.keytodlgs
    THEN [keeper |-> K, dlg |-> K.keytodlgs[key][1]]
    ELSE _populatedlg(K, key)

\* DialogKeeper._preparedlg
_preparedlg(K, key) ==
    IF key \in DOMAIN K.keytodlgs
    THEN [keeper |-> K, dlg |-> K.keytodlgs[key][Len(K.keytodlgs[key])]]
    ELSE _populatedlg(K, key)

\* dlg.show(); dlg.raise_(); dlg.activateWindow(): a dialog whose deletion
\* is deferred is shown again and is deleted nevertheless
show(K, dlg) == [K EXCEPT !.dlgs[dlg] = IF @ = "closed" THEN "closed" ELSE "shown"]

\* the dialogs as they were before an operation
Before(K) == [dlgs |-> K.dlgs, keyof |-> K.keyof]

\* DialogKeeper.open
keeperOpen(K, key) ==
    LET r == _preparedlg(K, key)
    IN  [show(r.keeper, r.dlg) EXCEPT
            !.last = [op |-> "open", key |-> key, dlg |-> r.dlg, was |-> Before(K)]]

\* DialogKeeper.openNew
openNew(K, key) ==
    LET r == _populatedlg(K, key)
    IN  [show(r.keeper, r.dlg) EXCEPT
            !.last = [op |-> "openNew", key |-> key, dlg |-> r.dlg, was |-> Before(K)]]

\* sip.isdeleted(dlg)
isdeleted(K, dlg) == K.dlgs[dlg] = "deleted"

RECURSIVE CleanupKeys(_, _, _)
\* DialogKeeper._cleanupdlgs over the keys in keys
CleanupKeys(K, dict, keys) ==
    IF keys = {} THEN dict
    ELSE LET key == CHOOSE k \in keys : TRUE
             livedialogs == SelectSeq(dict[key], LAMBDA dlg : ~isdeleted(K, dlg))
         IN  CleanupKeys(K,
                         IF livedialogs # << >> THEN Put(dict, key, livedialogs)
                         ELSE Del(dict, key),
                         keys \ {key})

\* DialogKeeper._cleanupdlgs
_cleanupdlgs(K) == [K EXCEPT !.keytodlgs = CleanupKeys(K, @, DOMAIN @)]

\* DialogKeeper.count
count(K) ==
    Cardinality({ x \in DialogKeys \X DialogIds :
                    x[1] \in DOMAIN K.keytodlgs /\ x[2] <= Len(K.keytodlgs[x[1]]) })

\* the user closes a dialog (or it is accepted or rejected): with
\* WA_DeleteOnClose the widget is hidden and deleteLater() is called
closeDialog(K, dlg) ==
    [K EXCEPT !.dlgs[dlg] = "closed", !.last = [op |-> "close", dlg |-> dlg, was |-> Before(K)]]

\* the event loop deletes the dialog; its destroyed signal runs _cleanupdlgs
deferredDelete(K, dlg) ==
    [_cleanupdlgs([K EXCEPT !.dlgs[dlg] = "deleted"]) EXCEPT
        !.last = [op |-> "delete", dlg |-> dlg, was |-> Before(K)]]

KeeperBecomes(K) ==
    /\ dk' = K
    /\ UNCHANGED << treeVars, statusVars, ct, ig, ws, qr, wc >>

KeeperOpen ==
    \E key \in DialogKeys :
        /\ key \in DOMAIN dk.keytodlgs \/ \E d \in DialogIds : dk.dlgs[d] = "none"
        /\ KeeperBecomes(keeperOpen(dk, key))

KeeperOpenNew ==
    \E key \in DialogKeys :
        /\ \E d \in DialogIds : dk.dlgs[d] = "none"
        /\ KeeperBecomes(openNew(dk, key))

CloseDialog ==
    \E dlg \in DialogIds :
        /\ dk.dlgs[dlg] = "shown"
        /\ KeeperBecomes(closeDialog(dk, dlg))

DeferredDelete ==
    \E dlg \in DialogIds :
        /\ dk.dlgs[dlg] = "closed"
        /\ KeeperBecomes(deferredDelete(dk, dlg))

NextKeeper ==
    \/ KeeperOpen
    \/ KeeperOpenNew
    \/ CloseDialog
    \/ DeferredDelete

\* ------------------------------------------------------------------------
\* Writable configs over one ini file (wconfig.py)
\* ------------------------------------------------------------------------

\* set and remove calls a writer makes between read and write
MaxOps == 2

WriterIds == {"A", "B"}
IniSections == {"ui"}
IniKeys == {"foo", "baz"}
IniValues == {"bar", "bax"}

\* An ini document, on disk or parsed: its sections by name, each a sortdict
\* of <<key, value>> pairs in file order.
\* _wconfig.__init__() and the history kept of it: state, the file at read()
\* (loaded) and at write() (found), the calls that returned, and whether the
\* last call raised KeyError
NewWconfig ==
    [state |-> "new", config |-> EmptyDict, readfiles |-> 0, sections |-> EmptyDict,
     keyerror |-> FALSE, loaded |-> EmptyDict, found |-> EmptyDict, calls |-> << >>]

\* _wconfig.read(path): config.read parses the file into self._config
read(W, file) == [W EXCEPT !.config = file, !.readfiles = @ + 1]

\* _wconfig.__getitem__(section): the wrapper kept in _sections, made on the
\* first access to a section that is not empty; for an empty or missing
\* section a wrapper that is thrown away
__getitem__(W, section) ==
    IF section \in DOMAIN W.sections THEN W
    ELSE IF Get(W.config, section, << >>) # << >>
    THEN [W EXCEPT !.sections = Put(@, section, << >>)]
    ELSE W

\* self[section]._logset(item, value)
_logset(W, section, item, value) ==
    LET W1 == __getitem__(W, section)
    IN  IF section \in DOMAIN W1.sections
        THEN [W1 EXCEPT !.sections[section] =
                            Append(@, [op |-> "set", key |-> item, val |-> value])]
        ELSE W1

\* self[section]._logdel(item)
_logdel(W, section, item) ==
    LET W1 == __getitem__(W, section)
    IN  IF section \in DOMAIN W1.sections
        THEN [W1 EXCEPT !.sections[section] =
                            Append(@, [op |-> "del", key |-> item, val |-> ""])]
        ELSE W1

\* _wconfig._setconfig(section, item, value)
_setconfig(W, section, item, value) ==
    IF ~SdHas(Get(W.config, section, << >>), item)
    THEN [W EXCEPT !.config = Put(@, section,
                                  _setdict(Get(@, section, << >>), item, value))]
    ELSE _logset([W EXCEPT !.config[section] = _setdict(@, item, value)],
                 section, item, value)

\* _wconfig.set(section, item, value)
wconfigSet(W, section, item, value) ==
    [_logset(_setconfig(W, section, item, value), section, item, value)
        EXCEPT !.keyerror = FALSE]

\* _wconfig.remove(section, item): del self[section][item] raises KeyError
\* for an item the section does not hold
remove(W, section, item) ==
    LET W1 == __getitem__(W, section)
    IN  IF ~SdHas(Get(W1.config, section, << >>), item)
        THEN [W1 EXCEPT !.keyerror = TRUE]
        ELSE [_logdel(_logdel([W1 EXCEPT !.config[section] = SdDel(@, item)],
                              section, item),
                      section, item)
                EXCEPT !.keyerror = FALSE]

RECURSIVE _replaylog(_, _)
\* _wsortdict._replaylog(target): a set gives the key the value, in place or
\* at the end of the section, a del removes the key if it is there
_replaylog(log, target) ==
    IF Len(log) = 0 THEN target
    ELSE _replaylog(Tail(log),
                    IF log[1].op = "set" THEN _setdict(target, log[1].key, log[1].val)
                    ELSE SdDel(target, log[1].key))

\* _wconfig._replaylogs(ini): getsection adds a section the document lacks
_replaylogs(W, ini) ==
    [s \in (DOMAIN ini) \cup (DOMAIN W.sections) |->
        IF s \in DOMAIN W.sections
        THEN _replaylog(W.sections[s], Get(ini, s, << >>))
        ELSE ini[s]]

\* write() that replays the log on the document the writer loaded
WriteOverLoaded(W, file) == _replaylogs(W, W.loaded)

\* _wconfig.write(dest) through writefile(config, path): _readini parses the
\* file as it is on disk now, the logs are replayed on it, and the result
\* replaces the file.  The value is the new content of the file.
write(W, file) == _replaylogs(W, file)

\* the files the writers start from
InitFiles ==
    { EmptyDict,
      Put(EmptyDict, "ui", << >>),
      Put(EmptyDict, "ui", << <<"foo", "bar">> >>),
      Put(EmptyDict, "ui", << <<"foo", "bar">>, <<"baz", "bar">> >>) }

\* two configs created over the file
Writers(file) ==
    [open |-> TRUE, file |-> file, w |-> [i \in WriterIds |-> NewWconfig],
     order |-> << >>]

\* wconfig.readfile(path) by writer i
WriterRead ==
    \E i \in WriterIds :
        /\ wc.w[i].state = "new"
        /\ wc' = [wc EXCEPT !.w[i] = [read(@, wc.file) EXCEPT
                                         !.state = "loaded", !.loaded = wc.file]]
        /\ UNCHANGED << treeVars, statusVars, ct, ig, ws, qr, dk >>

\* writer i calls set(section, item, value)
WriterSet ==
    \E i \in WriterIds, s \in IniSections, k \in IniKeys, v \in IniValues :
        /\ wc.w[i].state = "loaded"
        /\ Len(wc.w[i].calls) < MaxOps
        /\ wc' = [wc EXCEPT !.w[i] =
                     [wconfigSet(@, s, k, v) EXCEPT
                         !.calls = Append(@, [op |-> "set", section |-> s,
                                              key |-> k, val |-> v])]]
        /\ UNCHANGED << treeVars, statusVars, ct, ig, ws, qr, dk >>

\* writer i calls remove(section, item); a call that raises is not counted
WriterRemove ==
    \E i \in WriterIds, s \in IniSections, k \in IniKeys :
        /\ wc.w[i].state = "loaded"
        /\ Len(wc.w[i].calls) < MaxOps
        /\ LET W == remove(wc.w[i], s, k)
           IN  wc' = [wc EXCEPT !.w[i] =
                         IF W.keyerror THEN W
                         ELSE [W EXCEPT !.calls = Append(@, [op |-> "del", section |-> s,
                                                             key |-> k, val |-> ""])]]
        /\ UNCHANGED << treeVars, statusVars, ct, ig, ws, qr, dk >>

\* wconfig.writefile(config, path) by writer i
WriterWrite ==
    \E i \in WriterIds :
        /\ wc.w[i].state = "loaded"
        /\ wc' = [wc EXCEPT !.file = write(wc.w[i], wc.file),
                            !.w[i].state = "written",
                            !.w[i].found = wc.file,
                            !.order = Append(@, i)]
        /\ UNCHANGED << treeVars, statusVars, ct, ig, ws, qr, dk >>

NextWriters ==
    \/ WriterRead
    \/ WriterSet
    \/ WriterRemove
    \/ WriterWrite

\* ------------------------------------------------------------------------
\* Specifications
\* ------------------------------------------------------------------------

\* no settings dialog is open
InitApp == qr = NoRunner /\ dk = NoKeeper /\ wc = NoWriters
InitOther == ct = NoSettings /\ ig = NoDialog /\ ws = NoSocket /\ InitApp

InitIdle == InitTree /\ InitStatus({FALSE}) /\ InitOther
InitSelecting == InitTree /\ InitStatus({TRUE}) /\ InitOther

SpecItems == InitIdle /\ [][NextItems]_vars
SpecPaths == InitIdle /\ [][NextPaths]_vars
SpecRegistry == InitIdle /\ [][NextRegistry]_vars
SpecForeign == InitIdle /\ [][NextForeign]_vars
SpecSubrepos == InitIdle /\ [][NextSubrepos]_vars
SpecRefresh == InitIdle /\ [][NextRefresh]_vars
\* the refresh cycle with its scheduling: the event loop fires an armed timer
\* and delivers the finished signal, and a worker runs to its end
SpecRefreshFair ==
    /\ InitIdle
    /\ [][NextRefresh]_vars
    /\ WF_vars(TimerTimeout)
    /\ WF_vars(WorkerRun)
    /\ WF_vars(ReloadComplete(Statuses, {FALSE}))
SpecChecks == InitIdle /\ [][NextChecks]_vars
InitTools ==
    /\ InitTree /\ InitStatus({FALSE}) /\ InitSettings(ToolInis) /\ ig = NoDialog /\ ws = NoSocket /\ InitApp
InitHooks ==
    /\ InitTree /\ InitStatus({FALSE}) /\ InitSettings(HookInis) /\ ig = NoDialog /\ ws = NoSocket /\ InitApp
InitWorkbench ==
    /\ InitTree /\ InitStatus({FALSE}) /\ ct = NoSettings /\ ig = NoDialog /\ InitSocket /\ InitApp
InitIgnoreDialog ==
    /\ InitTree /\ InitStatus({FALSE}) /\ ct = NoSettings /\ InitIgnore /\ ws = NoSocket /\ InitApp

SpecTools == InitTools /\ [][NextTools]_vars
SpecHooks == InitHooks /\ [][NextHooks]_vars
SpecSocket == InitWorkbench /\ [][NextSocket]_vars
SpecIgnore == InitIgnoreDialog /\ [][NextIgnore]_vars
InitCatcher ==
    /\ InitTree /\ InitStatus({FALSE}) /\ ct = NoSettings /\ ig = NoDialog /\ ws = NoSocket
    /\ qr \in Runners /\ dk = NoKeeper /\ wc = NoWriters
InitErrors ==
    /\ InitTree /\ InitStatus({FALSE}) /\ ct = NoSettings /\ ig = NoDialog /\ ws = NoSocket
    /\ qr = PlainRunner /\ dk = NoKeeper /\ wc = NoWriters
InitRunner ==
    /\ InitTree /\ InitStatus({FALSE}) /\ ct = NoSettings /\ ig = NoDialog /\ ws = NoSocket
    /\ qr = PlainRunner /\ dk = NoKeeper /\ wc = NoWriters
SpecWorkbench == InitRunner /\ [][NextWorkbench]_vars
InitKeeper ==
    /\ InitTree /\ InitStatus({FALSE}) /\ ct = NoSettings /\ ig = NoDialog /\ ws = NoSocket
    /\ qr = NoRunner /\ dk = DialogKeeper /\ wc = NoWriters
SpecKeeper == InitKeeper /\ [][NextKeeper]_vars
InitWriters ==
    /\ InitTree /\ InitStatus({FALSE}) /\ ct = NoSettings /\ ig = NoDialog /\ ws = NoSocket
    /\ qr = NoRunner /\ dk = NoKeeper /\ wc \in { Writers(f) : f \in InitFiles }
SpecWriters == InitWriters /\ [][NextWriters]_vars
SpecCatcher == InitCatcher /\ [][NextCatcher]_vars
SpecErrors == InitErrors /\ [][NextErrors]_vars
SpecPartials == InitSelecting /\ [][NextPartials]_vars
SpecMerge == InitSelecting /\ [][NextMerge]_vars

\* ------------------------------------------------------------------------
\* Properties of the status widget
\* ------------------------------------------------------------------------

\* C6: whenever _updatePartials shows a file for which hunk exclusions were
\* recorded, every hunk of the newly loaded list whose fromline equals that of
\* a recorded hunk is left with the excluded state of that hunk
C6_ExclusionsFollowFromline ==
    upd.ran =>
        \A k \in 1..Len(upd.result), j \in 1..Len(upd.old) :
            upd.result[k].fromline = upd.old[j].fromline
                => upd.result[k].excluded = upd.old[j].excluded

\* a file with one hunk excluded and one included was shown again with a
\* different hunk list that still has the excluded hunk
C6_Witness ==
    /\ upd.ran
    /\ Len(upd.old) = 2
    /\ upd.old[1].excluded # upd.old[2].excluded
    /\ Len(upd.result) = 1
    /\ \E j \in 1..2 : /\ upd.old[j].fromline = upd.result[1].fromline
                       /\ upd.old[j].excluded
                       /\ upd.result[1].excluded

\* C7: every key of partials is a path of the current model (and partials is
\* empty while there is no model)
C7_PartialsWithinModel ==
    (DOMAIN sw.partials) \subseteq (IF tm.exists THEN DOMAIN tm.checked ELSE {})

\* a refresh replaced the model and removed the entry of a file that is not
\* in the new status
C7_Witness ==
    /\ tm.exists
    /\ upd.pruned # {}
    /\ upd.pruned \cap (DOMAIN tm.checked) = {}

\* every file with an entry in partials counts as checked, for getChecked and
\* for the check box of its row, by its hunks alone
CountsByHunks ==
    \A f \in DOMAIN sw.partials :
        /\ excludecount(sw.partials[f]) = 0
             => /\ f \in getChecked(Now)
                /\ tm.shares => data(tm, f) = Checked
        /\ excludecount(sw.partials[f]) = Len(sw.partials[f])
             => /\ f \notin getChecked(Now)
                /\ tm.shares => data(tm, f) = Unchecked

\* C8 as stated: a call of _updatePartials leaves no entry for a file it met
\* with none or all of its hunks excluded, and has set the checked map
C8_CollapseRemovesEntry ==
    /\ CountsByHunks
    /\ upd.ran =>
        /\ \A f \in upd.full : upd.checked[f] /\ f \notin upd.entries
        /\ \A f \in upd.empty : ~upd.checked[f] /\ f \notin upd.entries

\* C8 amended: the entry is removed and the checked map set, except that the
\* file being shown gets a new entry, whose hunks are all included if the old
\* entry had none excluded and all excluded if it had all excluded
C8_CollapseKeepsShownFile ==
    /\ CountsByHunks
    /\ upd.ran =>
        /\ \A f \in upd.full :
             /\ upd.checked[f]
             /\ f \in upd.entries
                  => f = upd.wfile /\ upd.result # << >> /\ excludecount(upd.result) = 0
        /\ \A f \in upd.empty :
             /\ ~upd.checked[f]
             /\ f \in upd.entries
                  => /\ f = upd.wfile /\ upd.result # << >>
                     /\ excludecount(upd.result) = Len(upd.result)

\* the file shown again had every hunk excluded: the checked map says
\* unchecked, and the entry it has now is a new one with every hunk excluded
C8_Witness ==
    /\ upd.ran
    /\ upd.wfile \in upd.empty
    /\ upd.wfile \in upd.entries
    /\ ~tm.checked[upd.wfile]
    /\ upd.wfile \in DOMAIN sw.partials
    /\ upd.result # upd.old

\* the number of rows of a row list that hold path f
RowsOf(rows, f) == Cardinality({k \in 1..Len(rows) : rows[k] = f})

\* C9 as stated: every path of the checked map is the path of exactly one of
\* the rows the model presents (tm.rows)
C9_CheckedWithinRows ==
    tm.exists => \A f \in DOMAIN tm.checked : RowsOf(tm.rows, f) = 1

\* C9 amended: every path of the checked map is the path of exactly one row of
\* the unfiltered row list, and the rows presented are rows of that list
C9_CheckedWithinUnfiltered ==
    tm.exists =>
        /\ \A f \in DOMAIN tm.checked : RowsOf(tm.unfiltered, f) = 1
        /\ \A k \in 1..Len(tm.unfiltered) : tm.unfiltered[k] \in DOMAIN tm.checked
        /\ \A k \in 1..Len(tm.rows) : RowsOf(tm.unfiltered, tm.rows[k]) = 1

\* a filter hides the row of a checked file while every row presented is
\* unchecked
C9_Witness ==
    /\ tm.exists
    /\ sw.le # << >>
    /\ tm.rows # << >>
    /\ \A k \in 1..Len(tm.rows) : ~tm.checked[tm.rows[k]]
    /\ \E f \in DOMAIN tm.checked : tm.checked[f] /\ RowsOf(tm.rows, f) = 0

\* C10: at most one StatusThread exists at a time, which is self.refthread;
\* the rows of the model change only in reloadComplete, run for a thread that
\* has finished and is forgotten by it; a step of a worker leaves the widget
\* and the model alone
C10_OneWorkerJoinedBeforeApplied ==
    /\ [](/\ Cardinality(Live(threads)) <= 1
          /\ Live(threads) = IF sw.refthread = NoThread THEN {} ELSE {sw.refthread})
    /\ [][(tm'.exists # tm.exists \/ tm'.unfiltered # tm.unfiltered)
            => /\ sw.refthread # NoThread
               /\ threads[sw.refthread].state = "finished"
               /\ sw'.refthread = NoThread
               /\ Live(threads') = {}]_vars
    /\ [][(\E t \in ThreadIds : threads[t].state = "running" /\ threads'[t].state = "finished")
            => UNCHANGED << sw, tm >>]_vars

\* a refresh was asked for and deferred while the worker of another one,
\* started when a model was already in place, has finished but is not applied
C10_Witness ==
    /\ tm.exists
    /\ sw.refthread # NoThread
    /\ threads[sw.refthread].state = "finished"
    /\ sw.refreshWctxLater

\* C11: a refresh deferred through the timer refreshWctxLater is not lost: while
\* the timer is armed a new worker is eventually started, with the timer
\* stopped.  It is not run concurrently: a worker starts only when no other
\* exists.  Deferred requests collapse: the step that disarms the timer starts
\* exactly one worker.  In-flight work is not cancelled: a running worker only
\* ever becomes a finished one.
C11_DeferredRefreshStarts ==
    /\ sw.refreshWctxLater
          ~> (/\ ~sw.refreshWctxLater
              /\ sw.refthread # NoThread
              /\ threads[sw.refthread].state = "running")
    /\ [][\A t \in ThreadIds :
            (threads[t].state = "none" /\ threads'[t].state # "none")
                => /\ Live(threads) = {}
                   /\ Live(threads') = {t}
                   /\ threads'[t].state = "running"]_vars
    /\ [][(sw.refreshWctxLater /\ ~sw'.refreshWctxLater)
            => /\ Live(threads) = {}
               /\ Cardinality(Live(threads')) = 1]_vars
    /\ [][\A t \in ThreadIds :
            threads[t].state = "running" => threads'[t].state \in {"running", "finished"}]_vars

\* the worker that was in flight when a refresh was deferred has completed and
\* its result is in the model, and the deferred refresh is still scheduled
C11_Witness ==
    /\ sw.refreshWctxLater
    /\ sw.refthread = NoThread
    /\ Live(threads) = {}
    /\ tm.exists

\* ------------------------------------------------------------------------
\* Properties of the settings panels
\* ------------------------------------------------------------------------

\* C15: every tool the panel holds has a name that is not empty and contains
\* no whitespace, and a command that is not empty
C15_ToolNamesValid ==
    ct.open =>
        \A k \in 1..Len(ct.tf.tortoisehgtools) :
            LET name == ct.tf.tortoisehgtools[k][1]
                cfg == ct.tf.tortoisehgtools[k][2]
            IN  /\ Len(name) > 0
                /\ \A i \in 1..Len(name) : name[i] \notin Whitespace
                /\ Len(cfg[<<"command">>]) > 0

\* the keys applyChanges is to leave in tortoisehg-tools for tools: a key
\* '<name>.<field>' for every field that is not empty, tool after tool
RECURSIVE ExpectedToolKeys(_)
ExpectedToolKeys(tools) ==
    IF Len(tools) = 0 THEN << >>
    ELSE LET name == tools[1][1]
             cfg == tools[1][2]
             set(f) == cfg[f] # << >>
             fields == SelectSeq(SortedFields(cfg), set)
         IN  [k \in 1..Len(fields) |-> DotKey(name, fields[k])]
             \o ExpectedToolKeys(Tail(tools))

\* C13: after applyChanges has written a changed tools configuration, the
\* keys of tortoisehg-tools are those of the non-empty fields of the tools the
\* panel holds, in the panel's order, and none is a key of a tool that was
\* renamed away or deleted in the panel
C13_ToolKeysAreThoseOfThePanel ==
    (ct.open /\ ct.last.op = "tools" /\ ct.last.changed) =>
        /\ SdKeys(ct.ini["tortoisehg-tools"]) = ExpectedToolKeys(ct.tf.tortoisehgtools)
        /\ \A k \in 1..Len(ct.ini["tortoisehg-tools"]) :
              SplitFirstDot(ct.ini["tortoisehg-tools"][k][1])[1] \notin ct.renamed

\* C12: applyChanges called when nothing was edited since the panels were
\* loaded leaves the configuration as it was and returns False
C12_AppliesOnlyEdits ==
    (ct.open /\ ct.last.op \in {"tools", "hooks"} /\ ~ct.edited) =>
        /\ ct.ini = ct.last.before
        /\ ~ct.last.changed

\* the three cells of the rows of a hook table
Entries(rows) ==
    { << rows[k].hooktype, rows[k].hookname, rows[k].command >> : k \in 1..Len(rows) }

\* C14: the hook table loaded from the configuration that applyChanges has
\* written has the entries of the table that was saved
C14_HooksRoundTrip ==
    (ct.open /\ ct.last.op = "hooksrefresh" /\ ct.last.changed) =>
        Entries(ct.hf.rows) = Entries(ct.last.rows)

\* C16: every row of the hook table has a type of _hooktypes, a
\* name without whitespace and '=', and a command that is not empty
C16_HookRowsValid ==
    ct.open =>
        \A k \in 1..Len(ct.hf.rows) :
            LET r == ct.hf.rows[k]
            IN  /\ r.hooktype \in Range(_hooktypes)
                /\ \A i \in 1..Len(r.hookname) : r.hookname[i] \notin Whitespace \cup {"="}
                /\ Len(r.command) > 0

\* ------------------------------------------------------------------------
\* Properties of the ignore filter dialog
\* ------------------------------------------------------------------------

\* a line Mercurial reads as a pattern: not blank and no 'syntax:' line
IsPattern(line) == Len(line) > 0 /\ ~startswithSyntax(line)

\* the syntax Mercurial has in force at line j of the ignore file: that of the
\* last 'syntax:' line above it that names a syntax, regexp when there is none
SyntaxAt(lines, j) ==
    LET name(k) == bstrip(Tail(lines[k]))
        hdrs == { k \in 1..(j - 1) : /\ startswithSyntax(lines[k])
                                     /\ name(k) \in {<<"glob">>, <<"regexp">>, <<"re">>} }
    IN  IF hdrs = {} THEN "regexp"
        ELSE LET k == CHOOSE k \in hdrs : \A m \in hdrs : m <= k
             IN  IF name(k) = <<"glob">> THEN "glob" ELSE "regexp"

\* the patterns in force, each with its syntax
InForce(lines) ==
    { << SyntaxAt(lines, j), lines[j] >> : j \in { j \in 1..Len(lines) : IsPattern(lines[j]) } }

SyntaxOf(isregexp) == IF isregexp THEN "regexp" ELSE "glob"

C18_PresentPatternChangesNothing ==
    (ig.open /\ ig.last.op = "insert" /\ ig.last.ok
        /\ \A k \in 1..Len(ig.last.pats) :
              /\ IsPattern(ig.last.pats[k])
              /\ << SyntaxOf(ig.last.isregexp), ig.last.pats[k] >> \in InForce(ig.last.before)) =>
        /\ InForce(ig.ignorelines) = InForce(ig.last.before)
        /\ InForce([k \in 1..Len(readlines(ig.file)) |-> bstrip(readlines(ig.file)[k])])
              = InForce(ig.last.before)

C18_Witness ==
    /\ ig.open /\ ig.last.op = "insert" /\ ig.last.ok
    /\ ~ig.last.isregexp
    /\ ig.last.pats = << <<"f">> >>
    /\ Len(ig.last.before) >= 3
    /\ Cardinality({ k \in 1..Len(ig.ignorelines) : ig.ignorelines[k] = <<"f">> }) >= 2
    /\ \E k \in 1..Len(ig.last.before) : startswithSyntax(ig.last.before[k]) /\ k > 1

\* the lines of bytes b all end with eol, and none with a different line end
AllLinesEndWith(b, eol) ==
    \A k \in 1..Len(readlines(b)) :
        LET line == readlines(b)[k]
        IN  /\ Len(line) >= Len(eol)
            /\ SubSeq(line, Len(line) - Len(eol) + 1, Len(line)) = eol
            /\ eol = LF => ~endswithCRLF(line)

\* C19 as stated: what a write leaves in the file has, on every line, the
\* line end of the first line of the file as it was last read: CRLF if that
\* line ends with CRLF, LF otherwise
C19_EolOfFirstLine ==
    (ig.open /\ ig.last.op \in {"insert", "delete"} /\ ig.last.ok) =>
        AllLinesEndWith(ig.last.out,
                        IF Len(ig.last.read) > 0 /\ endswithCRLF(ig.last.read[1])
                        THEN CRLF ELSE LF)

\* C19 amended: ... of the first line of the file as it was last read, and
\* when that file was missing or empty the line end of the platform, CRLF on
\* Windows and LF elsewhere
C19_EolOfFirstLineOrPlatform ==
    (ig.open /\ ig.last.op \in {"insert", "delete"} /\ ig.last.ok) =>
        AllLinesEndWith(ig.last.out,
                        IF Len(ig.last.read) > 0
                        THEN (IF endswithCRLF(ig.last.read[1]) THEN CRLF ELSE LF)
                        ELSE (IF ig.nt THEN CRLF ELSE LF))

C19_Witness ==
    /\ ig.open /\ ig.last.op = "delete" /\ ig.last.ok
    /\ Len(ig.last.read) >= 3
    /\ endswithCRLF(ig.last.read[1])
    /\ ~endswithCRLF(ig.last.read[2])
    /\ Len(ig.last.lines) >= 2
    /\ ig.file = ig.last.out

\* ------------------------------------------------------------------------
\* Properties of the workbench socket
\* ------------------------------------------------------------------------

\* C20: the server writes back the bytes it has read; the client that has
\* returned reports True exactly if it was connected and the reply it read is
\* the bytes it wrote, and then the server has read these bytes and shown the
\* root and revset they were made of
C20_EchoHandshake ==
    ws.open =>
        /\ ws.handled => ws.written = ws.read
        /\ ws.pc = "done" => (ws.result <=> (ws.connected /\ ws.reply = ws.data))
        /\ (ws.pc = "done" /\ ws.result) =>
              /\ ws.read = ws.data
              /\ ws.root # <<"[echo]">> =>
                    ws.shown = [uroot |-> ws.root,
                                urevset |-> IF Len(ws.revset) > 0 THEN ws.revset
                                            ELSE NoRevset]

C20_Witness ==
    /\ ws.open /\ ws.pc = "done" /\ ws.result
    /\ ws.data = <<"r", "s", NUL, "v">>
    /\ ws.written = ws.data


\* ------------------------------------------------------------------------
\* Properties of the exception catcher
\* ------------------------------------------------------------------------

\* C21: once the catcher has been released, sys.excepthook, the SIGINT
\* handler and the signal wake-up descriptor are the ones that were in place
\* before the catcher was installed, whatever they were, and a further
\* release() leaves them as they are
C21_ReleaseRestores ==
    (qr.constructed /\ qr.catcher = "released") =>
        /\ SysHooks(qr) = qr.before
        /\ qr.releases > 1 => SysHooks(qr) = qr.last.was

\* the dialogs executed so far, the open one included
Dialogs == IF qr.constructed THEN Range(qr.shown) \cup Range(qr.dialog) ELSE {}

\* C22 as stated: every reported exception of a known class is shown in a
\* message box with the message of its class (followed by the hint, for an
\* abort with a hint), and the crash-report dialog shows unclassified
\* exceptions only
C22_KnownClassInMessageBox ==
    \A d \in Dialogs :
        /\ \A k \in 1..Len(d.error) :
              d.error[k].etype \in RecoverableTypes =>
                  /\ d.kind = "ExceptionMsgBox"
                  /\ d.errstr \in { _recoverableexc(d.error[k].etype),
                                    _recoverableexc(d.error[k].etype) \o HintSuffix }
        /\ d.kind = "BugReport" =>
              \A k \in 1..Len(d.error) : d.error[k].etype \notin RecoverableTypes

\* the message the first report of a batch of one known class is shown with
MessageOf(r) ==
    IF r.etype = "ConfigError" /\ r.extra THEN _recoverableexc("ParseError")
    ELSE IF r.etype = "Abort" /\ r.extra THEN _recoverableexc("Abort") \o HintSuffix
    ELSE _recoverableexc(r.etype)

\* C22, amended: the reports queued for one handler run are shown in a
\* message box exactly when all of them have the same class and that class
\* itself (not a subclass) is one of the known ones; the message is that of
\* the class, with the hint appended for an abort that has one, and the
\* parse error message for a config error that has a location; every other
\* batch is shown in the crash-report dialog
C22_UniformBatchInMessageBox ==
    \A d \in Dialogs :
        LET uniform == /\ Cardinality(TypesOf(d.error)) = 1
                       /\ d.error[1].etype \in RecoverableTypes
        IN  /\ uniform => d.kind = "ExceptionMsgBox" /\ d.errstr = MessageOf(d.error[1])
            /\ ~uniform => d.kind = "BugReport"

\* a message box with the hint was shown for an abort, and a batch of two
\* different known classes was shown in the crash-report dialog
C22_Witness ==
    /\ qr.constructed
    /\ \E d \in Range(qr.shown) :
          /\ d.kind = "ExceptionMsgBox" /\ d.error[1].etype = "Abort"
          /\ d.errstr = _recoverableexc("Abort") \o HintSuffix
    /\ \E d \in Range(qr.shown) :
          /\ d.kind = "BugReport" /\ Len(d.error) = 2
          /\ \A k \in 1..2 : d.error[k].etype \in RecoverableTypes

\* the numbers of the reports in a list of reports
Numbers(reports) == { reports[k].n : k \in 1..Len(reports) }

\* C27: no report is discarded without having been shown: every exception
\* reported so far is still on its way to the handler (emitted or queued),
\* or is among the tracebacks of a dialog that was executed (or was printed
\* by the handler when it could not show a dialog), also when it arrived
\* while a dialog was open
C27_NoReportLost ==
    qr.constructed =>
        \A n \in 1..qr.reports :
            \/ n \in Numbers(qr.pending) \cup Numbers(qr.errors) \cup Numbers(qr.printed)
            \/ \E d \in Dialogs : n \in Numbers(d.error)

\* ------------------------------------------------------------------------
\* Properties of the workbench server
\* ------------------------------------------------------------------------

\* C28: openRepoInWorkbench never connects to the server of its own
\* process: it calls connectToExistingWorkbench only when this process has
\* created no server, and otherwise (and when nothing answered) shows the
\* repository in the workbench of this process
C28_NoConnectionToOwnServer ==
    (qr.constructed /\ qr.last.op = "open") =>
        /\ ~qr.last.conn.toself
        /\ qr.last.conn.connected => qr.last.server = "none"
        /\ ~qr.last.conn.result =>
              qr.workbench # << >> /\ qr.workbench[Len(qr.workbench)] = qr.last.uroot

\* a process that listens as the workbench server was asked to open a
\* repository in single-workbench mode and has shown it itself
C28_Witness ==
    /\ qr.constructed /\ qr.last.op = "open"
    /\ qr.last.singlewb /\ qr.last.server = "listening" /\ qr.listener = "own"
    /\ ~qr.last.conn.connected
    /\ qr.workbench # << >>

\* ------------------------------------------------------------------------
\* Properties of the discovery of subrepositories
\* ------------------------------------------------------------------------

\* a discovery has returned (it has not raised again after the user's Abort)
Discovered ==
    /\ "op" \in DOMAIN registry
    /\ registry.op = "appendSubrepos"
    /\ ~registry.result.raised

\* the repository was looked into: hg.repository and repo[b'.'] succeeded
Opened(repo) == repo.exists /\ repo.marker /\ repo.opens = "ok"

\* the entry cannot be resolved (no directory) or opened (wctx.sub raises)
Stops(e) == ~e.isdir \/ (e.type = HgType /\ e.opens # "ok")

RECURSIVE BrokenAnywhere(_)
\* the entry, or some subrepo below it, cannot be resolved or opened
BrokenAnywhere(e) ==
    \/ Stops(e)
    \/ /\ e.type = HgType
       /\ \/ e.repo.opens # "ok"
          \/ \E j \in 1..Len(e.repo.subs) : BrokenAnywhere(e.repo.subs[j])

RECURSIVE AllAddedAndMarked(_, _, _)
\* every subrepo of repo is a child of item, at every level, and those that
\* cannot be resolved or opened are invalid, as is item, and are in the list
AllAddedAndMarked(item, repo, invalid) ==
    /\ Len(item.childs) = Len(repo.subs)
    /\ \A k \in 1..Len(repo.subs) :
          LET e == repo.subs[k]
              c == item.childs[k]
          IN  /\ c.root = wjoin(repo.root, e.name)
              /\ BrokenAnywhere(e) =>
                    ~c.valid /\ ~item.valid /\ c.root \in Range(invalid)
              /\ (~Stops(e) /\ e.type = HgType /\ e.repo.opens = "ok") =>
                    AllAddedAndMarked(c, e.repo, invalid)

\* C23 as stated: a subrepo that cannot be resolved or opened is marked
\* invalid, as are the repositories above it, and is in the returned list,
\* and the remaining subrepos are still added to the tree
C23_DiscoveryContinues ==
    (Discovered /\ Opened(registry.repo)) =>
        AllAddedAndMarked(registry.result.item, registry.repo, registry.result.invalid)

\* the number of entries of the substate the loop gets to: up to the first
\* that cannot be resolved or opened
ReachedCount(repo) ==
    IF \E k \in 1..Len(repo.subs) : Stops(repo.subs[k])
    THEN CHOOSE k \in 1..Len(repo.subs) :
            Stops(repo.subs[k]) /\ \A j \in 1..(k - 1) : ~Stops(repo.subs[j])
    ELSE Len(repo.subs)

RECURSIVE Broken(_)
\* the entry, or a subrepo below it that the discovery gets to, cannot be
\* resolved or opened
Broken(e) ==
    \/ Stops(e)
    \/ /\ e.type = HgType
       /\ \/ e.repo.opens # "ok"
          \/ \E j \in 1..ReachedCount(e.repo) : Broken(e.repo.subs[j])

RECURSIVE ReachedAddedAndMarked(_, _, _)
\* the children of item are the subrepos of repo up to the first that cannot
\* be resolved or opened, at every level; a child is invalid exactly when
\* it or something reached below it is broken, and then item is invalid;
\* the path of a child that is itself broken is in the list
ReachedAddedAndMarked(item, repo, invalid) ==
    /\ Len(item.childs) = ReachedCount(repo)
    /\ item.valid <=> ~\E k \in 1..ReachedCount(repo) : Broken(repo.subs[k])
    /\ \A k \in 1..ReachedCount(repo) :
          LET e == repo.subs[k]
              c == item.childs[k]
          IN  /\ c.root = wjoin(repo.root, e.name)
              /\ c.valid <=> ~Broken(e)
              /\ (Stops(e) \/ (e.type = HgType /\ e.repo.opens # "ok")) =>
                    c.root \in Range(invalid)
              /\ (~Stops(e) /\ e.type = HgType /\ e.repo.opens = "ok") =>
                    ReachedAddedAndMarked(c, e.repo, invalid)

\* C23, amended: when a subrepo cannot be resolved or opened, the error is
\* caught, the subrepo and the repositories above it are marked invalid and
\* the subrepo's path is in the returned list; the repository that owns it
\* adds the subrepos sorted before it and none of those sorted after it,
\* while the repositories above it go on with their own remaining subrepos
C23_DiscoveryStopsInOwner ==
    (Discovered /\ Opened(registry.repo)) =>
        ReachedAddedAndMarked(registry.result.item, registry.repo, registry.result.invalid)

\* a subrepo two levels down has no directory: it, its owner and the top
\* repository are invalid, and the top repository has gone on to add its
\* second subrepo
C23_Witness ==
    /\ Discovered /\ Opened(registry.repo)
    /\ Len(registry.repo.subs) = 2
    /\ Len(registry.result.item.childs) = 2
    /\ ~registry.result.item.valid
    /\ ~registry.result.item.childs[1].valid
    /\ Len(registry.result.item.childs[1].childs) = 1
    /\ ~registry.result.item.childs[1].childs[1].valid
    /\ ~registry.repo.subs[1].repo.subs[1].isdir
    /\ registry.result.item.childs[2].valid

\* ------------------------------------------------------------------------
\* Properties of the dialog keeper
\* ------------------------------------------------------------------------

\* the dialogs of a key that were created and are not deleted
AliveOf(K, key) == { d \in DialogIds : K.dlgs[d] \in {"shown", "closed"} /\ K.keyof[d] = key }

\* C25: the keeper tracks exactly the dialogs it created that are not
\* deleted, per key in the order of their creation, and count() is their
\* number; open() returns the most recently created dialog of the key that
\* is alive and creates one only when there is none; openNew() always
\* creates one
C25_KeeperTracksLiveDialogs ==
    dk.constructed =>
        /\ \A key \in DialogKeys :
              LET tracked == Get(dk.keytodlgs, key, << >>)
              IN  /\ Range(tracked) = AliveOf(dk, key)
                  /\ \A i, j \in 1..Len(tracked) : i < j => tracked[i] < tracked[j]
                  /\ key \in DOMAIN dk.keytodlgs => tracked # << >>
        /\ count(dk) = Cardinality(UNION { AliveOf(dk, key) : key \in DialogKeys })
        /\ dk.last.op = "open" =>
              LET before == AliveOf(dk.last.was, dk.last.key)
              IN  IF before # {}
                  THEN /\ dk.last.dlg \in before
                       /\ \A d \in before : d <= dk.last.dlg
                       /\ \A d \in DialogIds : dk.last.was.dlgs[d] = "none" => dk.dlgs[d] = "none"
                  ELSE /\ dk.last.was.dlgs[dk.last.dlg] = "none"
                       /\ dk.dlgs[dk.last.dlg] = "shown"
        /\ dk.last.op = "openNew" =>
              /\ dk.last.was.dlgs[dk.last.dlg] = "none"
              /\ dk.dlgs[dk.last.dlg] = "shown" /\ dk.keyof[dk.last.dlg] = dk.last.key

\* two dialogs of one key were created, the later one was closed and
\* deleted, and open() has returned the earlier one
C25_Witness ==
    /\ dk.constructed /\ dk.last.op = "open"
    /\ dk.last.dlg = 1 /\ dk.dlgs[2] = "deleted" /\ dk.keyof[2] = dk.last.key
    /\ dk.keyof[1] = dk.last.key
    /\ count(dk) = 1

\* C26: a refresh that succeeds while savechecks is set leaves every file of
\* the old model that the new status still lists with the check state it
\* had; a refresh that succeeds while savechecks is clear (the first one
\* after setPatchContext changed the patch context) gives every file the
\* default, checked if it is modified and in the patch context, and either
\* refresh leaves savechecks set
C26_RefreshKeepsChecks ==
    [][(tm.exists /\ upd'.refreshed) =>
          /\ sw.savechecks =>
                \A f \in (DOMAIN tm.checked) \cap (DOMAIN tm'.checked) :
                    tm'.checked[f] = tm.checked[f]
          /\ ~sw.savechecks =>
                \A f \in DOMAIN tm'.checked :
                    tm'.checked[f] = (f \in upd'.modified /\ pctxmatch(sw.pctx, f))
          /\ sw'.savechecks]_vars

\* a refresh carried over both a file the user unchecked, though modified
\* files are checked by default, and a file the user left checked
C26_Witness ==
    /\ upd.refreshed /\ upd.saved
    /\ sw.pctx = NoPctx
    /\ \E f, g \in DOMAIN upd.kept :
          /\ f \in upd.modified /\ ~upd.kept[f] /\ ~tm.checked[f]
          /\ upd.kept[g] /\ tm.checked[g]

\* C30: as long as appendChild and insertChild were given items that were in
\* no tree, every item that has a parent is found in the parent's child
\* list at the position its row() gives: parent().child(row()) is the item
C30_RowIsIndex ==
    ~treeop.reused =>
        \A i \in Created :
            items[i].parent # None =>
                LET cs == items[items[i].parent].childs
                IN  items[i].row < Len(cs) /\ cs[items[i].row + 1] = i

\* C29: reading a registry document that holds an element of an unknown
\* type gives the forest that the document without that element and its
\* content gives: the element is ignored with everything inside it and every
\* other element is loaded at its position
C29_UnknownElementIgnored ==
    ("op" \in DOMAIN registry /\ registry.op = "undumpForeign") =>
        Observable(registry.loaded) = Observable(registry.expected)

\* what a document holds for a key: its value, or NoValue
NoValue == "absent"
ValueIn(ini, s, k) ==
    IF s \in DOMAIN ini /\ SdHas(ini[s], k) THEN SdGet(ini[s], k) ELSE NoValue

\* the calls of writer i on the key k of section s, and what the last of
\* them asks for
CallsOn(i, s, k) ==
    SelectSeq(wc.w[i].calls, LAMBDA c : c.section = s /\ c.key = k)
Touched(i, s, k) == CallsOn(i, s, k) # << >>
Asked(i, s, k) ==
    LET c == CallsOn(i, s, k)
    IN  IF c[Len(c)].op = "set" THEN c[Len(c)].val ELSE NoValue

\* two writers loaded the same file and both wrote it back
BothWrote ==
    /\ wc.open
    /\ Len(wc.order) = 2
    /\ wc.w["A"].loaded = wc.w["B"].loaded

\* C24: when two writers loaded the same file and wrote it back one after
\* the other, each key holds what the last call of the second writer on it
\* asked for; if the second writer did not touch it, what it held on disk
\* when the second writer wrote, which is what the last call of the first
\* writer asked for or, if neither touched it, what the loaded file held
C24_LastWriterWins ==
    BothWrote =>
        LET first == wc.order[1]
            second == wc.order[2]
        IN  \A s \in IniSections, k \in IniKeys :
                LET final == ValueIn(wc.file, s, k)
                IN  /\ Touched(second, s, k) => final = Asked(second, s, k)
                    /\ ~Touched(second, s, k) =>
                          /\ final = ValueIn(wc.w[second].found, s, k)
                          /\ Touched(first, s, k) => final = Asked(first, s, k)
                          /\ ~Touched(first, s, k) =>
                                final = ValueIn(wc.w[first].loaded, s, k)

\* A wrote first; both touched one key and asked for different things, and
\* A alone changed another key
C24_Witness ==
    /\ BothWrote
    /\ wc.order = << "A", "B" >>
    /\ \E s \in IniSections, k1, k2 \in IniKeys :
          /\ Touched("A", s, k1) /\ Touched("B", s, k1)
          /\ Asked("A", s, k1) # Asked("B", s, k1)
          /\ ValueIn(wc.file, s, k1) = Asked("B", s, k1)
          /\ Touched("A", s, k2) /\ ~Touched("B", s, k2)
          /\ ValueIn(wc.w["A"].loaded, s, k2) # Asked("A", s, k2)
          /\ ValueIn(wc.file, s, k2) = Asked("A", s, k2)

=============================================================================
